---------------------------- MODULE Spec2Model ----------------------------
(***************************************************************************)
(* Model of the content-addressed cache of amp (src/amp/utilities.py):     *)
(* the FileDatabase record store, make_sublists, and the master/worker     *)
(* coordination loop of Data.calculate_items.                              *)
(***************************************************************************)
EXTENDS Integers, Sequences, FiniteSets, TLC

(***************************************************************************)
(* Bounds of the model.                                                    *)
(***************************************************************************)
NumKeys == 2
NumValues == 2
MaxLen == 3
MaxN == 4
MaxProcs == 2
MaxItems == 3
MaxAtoms == 2

Keys == 1..NumKeys
Values == 1..NumValues
\* The names make_sublists is tried on, and the worker counts.
ListKeys == 1..MaxLen
Counts == 1..MaxN
\* Worker process ids: setup_parallel numbers the workers from 0.
Pids == 0..(MaxProcs - 1)

VARIABLES
    rootExists,   \* the <path>.ampdb directory (with loose/) exists
    loose,        \* loose directory: file name -> file content
    tarExists,    \* archive.tar.gz exists
    tar,          \* archive members: name -> content
    memdict,      \* FileDatabase._memdict of the open instance
    isOpen,       \* a FileDatabase instance has been constructed
    last,         \* the last FileDatabase call and what it returned
    masterlist,   \* make_sublists: the list passed in (shuffled, popped)
    n,            \* make_sublists: the number of sublists asked for
    sublists,     \* make_sublists: the value returned
    given,        \* make_sublists: the list as the caller passed it
    images,       \* calculate_items: the images dictionary, hash -> image
    parallel,     \* calculate_items: parallel['cores'], 1 or {host: count}
    pc,           \* calculate_items: where the master is
    calcs_needed, \* calculate_items: the keys to compute
    keys,         \* calculate_items: the sublist of keys of each worker
    results,      \* calculate_items: the results collected
    active,       \* calculate_items: count of processes calculating
    n_pids,       \* setup_parallel: pid_count, the workers to start
    started,      \* start_workers: the workers spawned so far
    wstate,       \* each worker process: where it is
    wdata,        \* each worker process: the images it was served
    message,      \* the message of each worker waiting at the server socket
    reply,        \* the reply sent to each worker, not yet read by it
    entry,        \* history: the disk when calculate_items was entered
    calculated,   \* history: calls of calc.calculate by the master, per key
    writes,       \* history: calls of __setitem__ by the master
    reported,     \* history: the workers whose '<result>' was received
    how,          \* history: the path calculate_items took
    again,        \* history: calculate_items was called before
    items,        \* hash_images: the list of images passed in
    duplicates,   \* hash_images: dict_images.metadata['duplicates']
    warnings,     \* hash_images: the duplicate warnings logged
    passes,       \* hash_images: the lists of the earlier calls
    path,         \* FileDatabase.path of the open instance
    writers,      \* each writing process: its put, its instance, its step
    finished,     \* history: the processes in the order their puts ended
    cores,        \* assign_cores: the cores argument
    environ,      \* assign_cores: os.environ and what parsing it gives
    assigned,     \* assign_cores: what the call returned or raised, its log
    atoms,        \* get_hash: the images hashed
    hashes,       \* get_hash: the keys computed
    arch,         \* archive(): the call in progress, step by step
    other         \* the put another process made on the same path

storeVars == <<rootExists, loose, tarExists, tar, memdict, isOpen, last, path>>
diskVars == <<rootExists, loose, tarExists, tar>>
handleVars == <<memdict, isOpen, last, path>>
listVars == <<masterlist, n, sublists, given>>
inputVars == <<images, parallel>>
loopVars == <<calcs_needed, keys, results, active, n_pids, started>>
workerVars == <<wstate, wdata, message, reply>>
historyVars == <<entry, calculated, writes, reported, how, again>>
hashVars == <<items, duplicates, warnings, passes>>
writerVars == <<writers, finished>>
coresVars == <<cores, environ, assigned>>
atomsVars == <<atoms, hashes>>
sharedVars == <<arch, other>>
sideVars == <<writerVars, coresVars, atomsVars, sharedVars>>
masterVars == <<images, parallel, pc, calcs_needed, keys, results, active,
                n_pids, started, wstate, wdata, message, reply,
                entry, calculated, writes, reported, how, again>>
vars == <<rootExists, loose, tarExists, tar, memdict, isOpen, last,
          masterlist, n, sublists, given,
          images, parallel, pc, calcs_needed, keys, results, active,
          n_pids, started, wstate, wdata, message, reply,
          entry, calculated, writes, reported, how, again,
          items, duplicates, warnings, passes, path,
          writers, finished, cores, environ, assigned, atoms, hashes,
          arch, other>>

(***************************************************************************)
(* Dictionaries and directories are functions on a finite set of names.    *)
(***************************************************************************)
EmptyMap == << >>

MapPut(f, k, v) == [x \in (DOMAIN f) \cup {k} |-> IF x = k THEN v ELSE f[x]]

Range(f) == {f[i] : i \in DOMAIN f}

Distinct(list) == Cardinality(Range(list)) = Len(list)

(***************************************************************************)
(* pickle.dumps / pickle.load: a value is stored as a tagged byte string.  *)
(***************************************************************************)
Dumps(v) == <<"pickle", v>>

Loads(s) == s[2]

(***************************************************************************)
(* FileDatabase                                                            *)
(***************************************************************************)
\* keys(): loose file names united with the archive's member names.
DbKeysLooseOnly(l, te, t) == DOMAIN l

DbKeys(l, te, t) == (DOMAIN l) \cup (IF te THEN DOMAIN t ELSE {})

\* __setitem__, the loose file: rewritten unless it already holds dumps(value).
SetItemLooseSkipExisting(l, k, v) ==
    IF k \in DOMAIN l THEN l ELSE MapPut(l, k, Dumps(v))

\* A __setitem__ that writes the file whatever it holds.
SetItemWritesAlways(l, k, v) == TRUE

\* __setitem__ returns before writing when the file exists and its content
\* is pickle.dumps(value).
SetItemWrites(l, k, v) == k \notin DOMAIN l \/ l[k] # Dumps(v)

Written(b) == <<"written", IF b THEN 1 ELSE 0>>

SetItemLoose(l, k, v) ==
    IF k \in DOMAIN l /\ l[k] = Dumps(v) THEN l ELSE MapPut(l, k, Dumps(v))

\* A memory dictionary that keeps the value it has for a key.
SetItemMemFirst(m, k, v) == IF k \in DOMAIN m THEN m ELSE MapPut(m, k, v)

\* __setitem__, the memory dictionary.
SetItemMem(m, k, v) == MapPut(m, k, v)

\* __getitem__: memory, then loose, then archive, else KeyError.
KeyError(k) == <<"KeyError", k>>

Returned(v) == <<"value", v>>

\* A get that answers a default value for a key it does not find.
GetItemDefault(m, l, te, t, k) ==
    IF k \in DOMAIN m THEN Returned(m[k])
    ELSE IF k \in DOMAIN l THEN Returned(Loads(l[k]))
    ELSE IF te /\ k \in DOMAIN t THEN Returned(Loads(t[k]))
    ELSE Returned(0)

GetItemArchiveFirst(m, l, te, t, k) ==
    IF k \in DOMAIN m THEN Returned(m[k])
    ELSE IF te /\ k \in DOMAIN t THEN Returned(Loads(t[k]))
    ELSE IF k \in DOMAIN l THEN Returned(Loads(l[k]))
    ELSE KeyError(k)

GetItem(m, l, te, t, k) ==
    IF k \in DOMAIN m THEN Returned(m[k])
    ELSE IF k \in DOMAIN l THEN Returned(Loads(l[k]))
    ELSE IF te THEN (IF k \in DOMAIN t THEN Returned(Loads(t[k]))
                     ELSE KeyError(k))
    ELSE KeyError(k)

\* archive(), first step: archive members with no loose file are extracted
\* into the loose directory.
ArchiveExtractAll(l, te, t) ==
    IF te THEN [x \in (DOMAIN l) \cup (DOMAIN t) |->
                   IF x \in DOMAIN t THEN t[x] ELSE l[x]]
    ELSE l

ArchiveExtract(l, te, t) ==
    IF te THEN [x \in (DOMAIN l) \cup (DOMAIN t) |->
                   IF x \in DOMAIN l THEN l[x] ELSE t[x]]
    ELSE l

\* archive(), second step: the archive is rewritten ('w:gz') from the files
\* now listed in the loose directory.
ArchiveWrite(l, listed) == [x \in listed |-> l[x]]

\* archive(), third step: the listed loose files are removed.
ArchiveKeepLoose(l, listed) == l

ArchiveRemove(l, listed) == [x \in (DOMAIN l) \ listed |-> l[x]]

\* The record of the last call: its name and arguments, what it returned,
\* the call before it, and for archive() the disk it started from.
NoRet == <<"none", 0>>

Disk(l, te, t) == [loose |-> l, tarExists |-> te, tar |-> t]

NoDisk == Disk(EmptyMap, FALSE, EmptyMap)

Call(op, k, v, r, pre) ==
    [op |-> op, key |-> k, val |-> v, ret |-> r, prev |-> last.op, pre |-> pre]

\* The file names a store is opened with: with and without the extension.
Filenames == {<<"db">>, <<"db", "ampdb">>}

\* The directory of the store.
StorePath == <<"db", "ampdb">>

\* A path taken as given.
AmpdbPathAsGiven(filename) == filename

\* if not filename.endswith(os.extsep + 'ampdb'): filename += ...
AmpdbPath(filename) ==
    IF filename[Len(filename)] = "ampdb" THEN filename
    ELSE Append(filename, "ampdb")

Opened(filename) == <<"opened", IF filename = StorePath THEN 1 ELSE 0>>

\* FileDatabase(filename) / FileDatabase.open: a new instance.
Open(filename) ==
    /\ path' = AmpdbPath(filename)
    /\ rootExists' = (rootExists \/ path' = StorePath)
    /\ memdict' = EmptyMap
    /\ isOpen' = TRUE
    /\ last' = Call("open", 0, 0, Opened(filename), NoDisk)
    /\ UNCHANGED <<loose, tarExists, tar>>
    /\ UNCHANGED <<listVars, hashVars, sideVars, masterVars>>

SetItem(k, v) ==
    /\ isOpen
    /\ memdict' = SetItemMem(memdict, k, v)
    /\ loose' = SetItemLoose(loose, k, v)
    /\ last' = Call("setitem", k, v, Written(SetItemWrites(loose, k, v)), NoDisk)
    /\ UNCHANGED <<rootExists, tarExists, tar, isOpen, path>>
    /\ UNCHANGED <<listVars, hashVars, sideVars, masterVars>>

GetItemCall(k) ==
    /\ isOpen
    /\ last' = Call("getitem", k, 0,
                    GetItem(memdict, loose, tarExists, tar, k), NoDisk)
    /\ UNCHANGED <<rootExists, loose, tarExists, tar, memdict, isOpen, path>>
    /\ UNCHANGED <<listVars, hashVars, sideVars, masterVars>>

Archive ==
    /\ isOpen
    /\ IF DOMAIN loose = {}
       THEN UNCHANGED <<loose, tarExists, tar>>
       ELSE LET extracted == ArchiveExtract(loose, tarExists, tar)
                listed == DOMAIN extracted
            IN /\ tar' = ArchiveWrite(extracted, listed)
               /\ tarExists' = TRUE
               /\ loose' = ArchiveRemove(extracted, listed)
    /\ last' = Call("archive", 0, 0, NoRet, Disk(loose, tarExists, tar))
    /\ UNCHANGED <<rootExists, memdict, isOpen, path>>
    /\ UNCHANGED <<listVars, hashVars, sideVars, masterVars>>

StoreNext ==
    \/ \E filename \in Filenames : Open(filename)
    \/ \E k \in Keys, v \in Values : SetItem(k, v)
    \/ \E k \in Keys : GetItemCall(k)
    \/ Archive

(***************************************************************************)
(* make_sublists                                                           *)
(***************************************************************************)
\* np.random.shuffle(masterlist): any rearrangement of the list.
Shuffles(list) ==
    {[i \in 1..Len(list) |-> list[p[i]]] : p \in Permutations(1..Len(list))}

\* sublist_lengths: the first N % n sublists get one element more.
SublistLengthsExtraLast(N, m) ==
    [i \in 1..m |-> IF (i - 1) < m - (N % m) THEN N \div m ELSE N \div m + 1]

SublistLengths(N, m) ==
    [i \in 1..m |-> IF (i - 1) >= (N % m) THEN N \div m ELSE N \div m + 1]

\* [masterlist.pop() for _ in xrange(c)]: c elements taken off the end.
Popped(list, c) == [j \in 1..c |-> list[Len(list) + 1 - j]]

\* masterlist after c calls of pop().
AfterPopsKeepList(list, c) == list

AfterPops(list, c) == SubSeq(list, 1, Len(list) - c)

\* The loop over sublist_lengths, from sublist i on: the sublists appended
\* and the masterlist left.
RECURSIVE PopLoop(_, _, _, _)
PopLoop(list, lengths, i, acc) ==
    IF i > Len(lengths) THEN [sublists |-> acc, masterlist |-> list]
    ELSE PopLoop(AfterPops(list, lengths[i]), lengths, i + 1,
                 Append(acc, Popped(list, lengths[i])))

\* make_sublists on the shuffled list.
MakeSublists(shuffled, m) ==
    PopLoop(shuffled, SublistLengths(Len(shuffled), m), 1, << >>)

MakeSublistsCall ==
    /\ given[1] = "list"
    /\ \E shuffled \in Shuffles(masterlist) :
          LET r == MakeSublists(shuffled, n)
          IN /\ sublists' = r.sublists
             /\ masterlist' = r.masterlist
    /\ given' = <<"returned", given[2]>>
    /\ UNCHANGED n
    /\ UNCHANGED <<storeVars, hashVars, sideVars, masterVars>>

ListNext == MakeSublistsCall

(***************************************************************************)
(* Data.calculate_items and the worker processes                           *)
(***************************************************************************)
\* The image stored under hash k, and calc.calculate(image, key), the
\* deterministic computation supplied by the calculator.
Image(k) == k

Calculate(image, key) == (image % NumValues) + 1

\* pid_count as the number of hosts.
SumHosts(counts) == Len(counts)

\* parallel['cores']: 1 for serial operation, else a dictionary host ->
\* number of processes, here the counts in the order iteritems() gives them.
RECURSIVE SumTo(_, _)
SumTo(counts, i) == IF i = 0 THEN 0 ELSE counts[i] + SumTo(counts, i - 1)

Sum(counts) == SumTo(counts, Len(counts))

\* pids = range(pid_count, pid_count + nprocesses), for the host at place
\* h of the dictionary.
PidsOfHost(counts, h) == SumTo(counts, h - 1)..(SumTo(counts, h) - 1)

CoreMaps ==
    {c \in UNION {[1..h -> 1..MaxProcs] : h \in 1..MaxProcs} :
        Sum(c) <= MaxProcs}

Parallels ==
    {[serial |-> TRUE, cores |-> << >>]}
        \cup {[serial |-> FALSE, cores |-> c] : c \in CoreMaps}

\* calcs_needed = list(set(images.keys()).difference(d.keys()))
CalcsNeededAll(imgs, dbkeys) == DOMAIN imgs

CalcsNeeded(imgs, dbkeys) == (DOMAIN imgs) \ dbkeys

\* list(a_set): the elements in some order.
ListsOf(S) ==
    {l \in [1..Cardinality(S) -> S] : {l[i] : i \in 1..Cardinality(S)} = S}

\* for key in calcs_needed: d[key] = self.calc.calculate(images[key], key)
RECURSIVE SerialLoop(_, _, _, _)
SerialLoop(l, imgs, list, i) ==
    IF i > Len(list) THEN l
    ELSE SerialLoop(SetItemLoose(l, list[i], Calculate(imgs[list[i]], list[i])),
                    imgs, list, i + 1)

\* An update that writes nothing.
UpdateSkip(l, newitems) == l

\* FileDatabase.update(newitems): __setitem__ for every item.
RECURSIVE Update(_, _)
Update(l, newitems) ==
    IF DOMAIN newitems = {} THEN l
    ELSE LET k == CHOOSE x \in DOMAIN newitems : TRUE
             rest == [x \in (DOMAIN newitems) \ {k} |-> newitems[x]]
         IN Update(SetItemLoose(l, k, newitems[k]), rest)

\* An assignment results = result in place of results.update(result).
DictUpdateReplace(d, result) == result

\* results.update(result)
DictUpdate(d, result) ==
    [x \in (DOMAIN d) \cup (DOMAIN result) |->
        IF x \in DOMAIN result THEN result[x] ELSE d[x]]

\* MessageDictionary.__call__(subject, data)
Message(id, subject, data) == [id |-> id, subject |-> subject, data |-> data]

NoMessage == Message(0 - 1, "none", EmptyMap)

NoReply == <<"none", EmptyMap>>

\* calc.keyed (dictionaries indexed by image key) and calc.globals.
KeyedNames == {"keyed"}

GlobalNames == {"global"}

CalcKeyed(name, k) == <<name, k>>

CalcGlobals(name) == <<name>>

\* The keys of all sublists, whoever asks.
KeysOfWorkerAll(ks, id) == UNION {Range(ks[i]) : i \in DOMAIN ks}

\* The keys of the sublist after the asking worker's.
KeysOfWorkerNext(ks, id) == Range(ks[((id + 1) % Len(ks)) + 1])

\* keys[int(message['id'])], as a set
KeysOfWorker(ks, id) == Range(ks[id + 1])

\* A '<request>' that is received and not answered.
RequestReplyNothing(m, imgs, ks) == NoReply

\* The reply to a '<request>': the images, or the keyed variable, of the
\* keys of the asking worker, or else a global.
RequestReply(m, imgs, ks) ==
    IF m.data = "images"
    THEN <<"images", [k \in KeysOfWorker(ks, m.id) |-> imgs[k]]>>
    ELSE IF m.data \in KeyedNames
    THEN <<"keyed", [k \in KeysOfWorker(ks, m.id) |-> CalcKeyed(m.data, k)]>>
    ELSE <<"global", CalcGlobals(m.data)>>

\* A loop without the test that ends it.
LoopExitsNever(act) == FALSE

\* if active == 0: break
LoopExits(act) == act = 0

AllOff == [w \in Pids |-> "off"]

NoData == [w \in Pids |-> EmptyMap]

NoMessages == [w \in Pids |-> NoMessage]

NoReplies == [w \in Pids |-> NoReply]

NoCalls == [k \in Keys |-> 0]

\* calculate_items up to the serial loop or the call of setup_parallel.
CalculateItems ==
    /\ pc = "idle"
    /\ rootExists' = TRUE
    /\ entry' = Disk(loose, tarExists, tar)
    /\ \E needed \in ListsOf(CalcsNeeded(images, DbKeys(loose, tarExists, tar))) :
          IF Len(needed) = 0
          THEN /\ pc' = "returned"
               /\ how' = "nothing"
               /\ calcs_needed' = needed
               /\ UNCHANGED <<loose, calculated, writes, n_pids>>
          ELSE IF parallel.serial
          THEN /\ pc' = "returned"
               /\ how' = "serial"
               /\ calcs_needed' = needed
               /\ loose' = SerialLoop(loose, images, needed, 1)
               /\ calculated' =
                     [k \in Keys |->
                         calculated[k]
                           + Cardinality({i \in DOMAIN needed : needed[i] = k})]
               /\ writes' = writes + Len(needed)
               /\ UNCHANGED n_pids
          ELSE /\ pc' = "setup"
               /\ how' = "distributed"
               /\ calcs_needed' = needed
               /\ n_pids' = Sum(parallel.cores)
               /\ UNCHANGED <<loose, calculated, writes>>
    /\ UNCHANGED <<tarExists, tar, handleVars, listVars, hashVars, sideVars, inputVars>>
    /\ UNCHANGED <<keys, results, active, started, workerVars, reported, again>>

\* setup_parallel / start_workers: the next worker is spawned and its two
\* markers are read; after the last one, make_sublists and the loop begin.
StartWorker ==
    /\ pc = "setup"
    /\ started < n_pids
    /\ wstate' = [wstate EXCEPT ![started] = "start"]
    /\ started' = started + 1
    /\ IF started + 1 = n_pids
       THEN \E shuffled \in Shuffles(calcs_needed) :
               LET r == MakeSublists(shuffled, n_pids)
               IN /\ keys' = r.sublists
                  /\ calcs_needed' = r.masterlist
                  /\ results' = EmptyMap
                  /\ active' = 0
                  /\ pc' = "listening"
       ELSE UNCHANGED <<keys, calcs_needed, results, active, pc>>
    /\ UNCHANGED <<storeVars, listVars, hashVars, sideVars, inputVars, n_pids>>
    /\ UNCHANGED <<wdata, message, reply, historyVars>>

\* A pass of the loop that writes the results so far to the database.
LoopEndWriteThrough(act, res) ==
    IF act = 0
    THEN /\ pc' = "returned"
         /\ loose' = [x \in (DOMAIN loose) \cup (DOMAIN res) |->
                         IF x \in DOMAIN res THEN Dumps(res[x]) ELSE loose[x]]
         /\ writes' = writes + Cardinality(DOMAIN res)
    ELSE /\ pc' = "listening"
         /\ loose' = [x \in (DOMAIN loose) \cup (DOMAIN res) |->
                         IF x \in DOMAIN res THEN Dumps(res[x]) ELSE loose[x]]
         /\ writes' = writes + Cardinality(DOMAIN res)

\* The end of a pass of the loop: leave when active is 0, and then write
\* the results to the database.
LoopEnd(act, res) ==
    IF LoopExits(act)
    THEN /\ pc' = "returned"
         /\ loose' = Update(loose, res)
         /\ writes' = writes + Cardinality(DOMAIN res)
    ELSE /\ pc' = "listening"
         /\ UNCHANGED <<loose, writes>>

HandlePurpose(w) ==
    /\ pc = "listening"
    /\ message[w].subject = "<purpose>"
    /\ message' = [message EXCEPT ![w] = NoMessage]
    /\ reply' = [reply EXCEPT ![w] = <<"parallel_command", EmptyMap>>]
    /\ active' = active + 1
    /\ LoopEnd(active + 1, results)
    /\ UNCHANGED <<rootExists, tarExists, tar, handleVars, listVars, hashVars, sideVars, inputVars>>
    /\ UNCHANGED <<calcs_needed, keys, results, n_pids, started>>
    /\ UNCHANGED <<wstate, wdata, entry, calculated, reported, how, again>>

HandleRequest(w) ==
    /\ pc = "listening"
    /\ message[w].subject = "<request>"
    /\ message' = [message EXCEPT ![w] = NoMessage]
    /\ reply' = [reply EXCEPT ![w] = RequestReply(message[w], images, keys)]
    /\ LoopEnd(active, results)
    /\ UNCHANGED <<rootExists, tarExists, tar, handleVars, listVars, hashVars, sideVars, inputVars>>
    /\ UNCHANGED <<calcs_needed, keys, results, active, n_pids, started>>
    /\ UNCHANGED <<wstate, wdata, entry, calculated, reported, how, again>>

HandleResult(w) ==
    /\ pc = "listening"
    /\ message[w].subject = "<result>"
    /\ message' = [message EXCEPT ![w] = NoMessage]
    /\ reply' = [reply EXCEPT ![w] = <<"meaningless reply", EmptyMap>>]
    /\ active' = active - 1
    /\ results' = DictUpdate(results, message[w].data)
    /\ reported' = reported \cup {message[w].id}
    /\ LoopEnd(active - 1, DictUpdate(results, message[w].data))
    /\ UNCHANGED <<rootExists, tarExists, tar, handleVars, listVars, hashVars, sideVars, inputVars>>
    /\ UNCHANGED <<calcs_needed, keys, n_pids, started>>
    /\ UNCHANGED <<wstate, wdata, entry, calculated, how, again>>

\* An '<info>' that counts as a process starting to calculate.
HandleInfoCounts(w) ==
    /\ pc = "listening"
    /\ message[w].subject = "<info>"
    /\ message' = [message EXCEPT ![w] = NoMessage]
    /\ reply' = [reply EXCEPT ![w] = <<"meaningless reply", EmptyMap>>]
    /\ active' = active + 1
    /\ LoopEnd(active + 1, results)
    /\ UNCHANGED <<rootExists, tarExists, tar, handleVars, listVars, hashVars, sideVars, inputVars>>
    /\ UNCHANGED <<calcs_needed, keys, results, n_pids, started>>
    /\ UNCHANGED <<wstate, wdata, entry, calculated, reported, how, again>>

HandleInfo(w) ==
    /\ pc = "listening"
    /\ message[w].subject = "<info>"
    /\ message' = [message EXCEPT ![w] = NoMessage]
    /\ reply' = [reply EXCEPT ![w] = <<"meaningless reply", EmptyMap>>]
    /\ LoopEnd(active, results)
    /\ UNCHANGED <<rootExists, tarExists, tar, handleVars, listVars, hashVars, sideVars, inputVars>>
    /\ UNCHANGED <<calcs_needed, keys, results, active, n_pids, started>>
    /\ UNCHANGED <<wstate, wdata, entry, calculated, reported, how, again>>

\* A worker process: it asks its purpose, asks for its images, may send
\* information, and returns the values of the images it was served.
WorkerSend(w, from, to, subject, data) ==
    /\ wstate[w] = from
    /\ wstate' = [wstate EXCEPT ![w] = to]
    /\ message' = [message EXCEPT ![w] = Message(w, subject, data)]
    /\ UNCHANGED <<storeVars, listVars, hashVars, sideVars, inputVars, pc, loopVars>>
    /\ UNCHANGED <<wdata, reply, historyVars>>

WorkerReceive(w, from, to) ==
    /\ wstate[w] = from
    /\ reply[w][1] # "none"
    /\ wstate' = [wstate EXCEPT ![w] = to]
    /\ reply' = [reply EXCEPT ![w] = NoReply]
    /\ wdata' = IF reply[w][1] = "images"
                THEN [wdata EXCEPT ![w] = reply[w][2]]
                ELSE wdata
    /\ UNCHANGED <<storeVars, listVars, hashVars, sideVars, inputVars, pc, loopVars>>
    /\ UNCHANGED <<message, historyVars>>

SendPurpose(w) == WorkerSend(w, "start", "purpose", "<purpose>", EmptyMap)

ReceivePurpose(w) == WorkerReceive(w, "purpose", "ready")

SendRequest(w) ==
    \/ WorkerSend(w, "ready", "request", "<request>", "images")
    \/ WorkerSend(w, "loaded", "request", "<request>", "images")
    \/ \E name \in KeyedNames \cup GlobalNames :
          WorkerSend(w, "ready", "asking", "<request>", name)

ReceiveImages(w) == WorkerReceive(w, "request", "loaded")

ReceiveVariable(w) == WorkerReceive(w, "asking", "ready")

SendInfo(w) == WorkerSend(w, "loaded", "info", "<info>", EmptyMap)

ReceiveInfoReply(w) == WorkerReceive(w, "info", "loaded")

SendResult(w) ==
    WorkerSend(w, "loaded", "result", "<result>",
               [k \in DOMAIN wdata[w] |-> Calculate(wdata[w][k], k)])

ReceiveResultReply(w) == WorkerReceive(w, "result", "done")

\* calculate_items is called again with the same images.
CallAgain ==
    /\ pc = "returned"
    /\ pc' = "idle"
    /\ calcs_needed' = << >>
    /\ keys' = << >>
    /\ results' = EmptyMap
    /\ active' = 0
    /\ n_pids' = 0
    /\ started' = 0
    /\ wstate' = AllOff
    /\ wdata' = NoData
    /\ message' = NoMessages
    /\ reply' = NoReplies
    /\ entry' = NoDisk
    /\ calculated' = NoCalls
    /\ writes' = 0
    /\ reported' = {}
    /\ how' = "none"
    /\ again' = TRUE
    /\ UNCHANGED <<storeVars, listVars, hashVars, sideVars, inputVars>>

Next ==
    \/ CalculateItems
    \/ StartWorker
    \/ \E w \in Pids : HandlePurpose(w)
    \/ \E w \in Pids : HandleRequest(w)
    \/ \E w \in Pids : HandleResult(w)
    \/ \E w \in Pids : HandleInfo(w)
    \/ \E w \in Pids : SendPurpose(w)
    \/ \E w \in Pids : ReceivePurpose(w)
    \/ \E w \in Pids : SendRequest(w)
    \/ \E w \in Pids : ReceiveImages(w)
    \/ \E w \in Pids : ReceiveVariable(w)
    \/ \E w \in Pids : SendInfo(w)
    \/ \E w \in Pids : ReceiveInfoReply(w)
    \/ \E w \in Pids : SendResult(w)
    \/ \E w \in Pids : ReceiveResultReply(w)
    \/ CallAgain

\* A worker that sends '<info>', or asks for a global, before it has sent
\* its '<purpose>': the spec fixes no place for these messages.
SendBeforePurpose(w) ==
    \/ WorkerSend(w, "start", "early", "<info>", EmptyMap)
    \/ \E name \in GlobalNames :
          WorkerSend(w, "start", "early", "<request>", name)

ReceiveBeforePurpose(w) == WorkerReceive(w, "early", "start")

NextAnyOrder ==
    \/ Next
    \/ \E w \in Pids : SendBeforePurpose(w)
    \/ \E w \in Pids : ReceiveBeforePurpose(w)

(***************************************************************************)
(* start_workers step by step: spawn, the two markers, expect.             *)
(***************************************************************************)
\* An expect that returns at once, whatever the child has written.
MarkerSeenAlways(ws, marker) == TRUE

\* child.expect(marker) returns when the child has written the marker: a
\* worker writes '<amp-connect>' and then '<stderr>'.
MarkerSeen(ws, marker) ==
    IF marker = "<amp-connect>"
    THEN ws \notin {"off", "spawned"}
    ELSE ws \notin {"off", "spawned", "connected"}

\* A handler that falls back to the serial loop when the launch fails.
OnLaunchErrorSerial(l, imgs, needed) == SerialLoop(l, imgs, needed, 1)

\* calculate_items has no handler around setup_parallel: the exception of
\* a failed expect leaves it, and the loose directory is as it was.
OnLaunchError(l, imgs, needed) == l

\* pexpect.spawn(workercommand % process_id), or ssh.sendline of it, for
\* the next process id; pc names the marker waited for.
SpawnWorker ==
    /\ pc = "setup"
    /\ started < n_pids
    /\ wstate' = [wstate EXCEPT ![started] = "spawned"]
    /\ pc' = "<amp-connect>"
    /\ UNCHANGED <<storeVars, listVars, hashVars, sideVars, inputVars, loopVars>>
    /\ UNCHANGED <<wdata, message, reply, historyVars>>

\* A spawned worker writes its two markers.
EmitConnect(w) ==
    /\ wstate[w] = "spawned"
    /\ wstate' = [wstate EXCEPT ![w] = "connected"]
    /\ UNCHANGED <<storeVars, listVars, hashVars, sideVars, inputVars, pc, loopVars>>
    /\ UNCHANGED <<wdata, message, reply, historyVars>>

EmitStderr(w) ==
    /\ wstate[w] = "connected"
    /\ wstate' = [wstate EXCEPT ![w] = "start"]
    /\ UNCHANGED <<storeVars, listVars, hashVars, sideVars, inputVars, pc, loopVars>>
    /\ UNCHANGED <<wdata, message, reply, historyVars>>

\* child.expect('<amp-connect>')
ExpectConnect ==
    /\ pc = "<amp-connect>"
    /\ MarkerSeen(wstate[started], "<amp-connect>")
    /\ pc' = "<stderr>"
    /\ UNCHANGED <<storeVars, listVars, hashVars, sideVars, inputVars, loopVars>>
    /\ UNCHANGED <<workerVars, historyVars>>

\* child.expect('<stderr>'); then the next process id, or after the last
\* one the return of setup_parallel, make_sublists and the loop.
ExpectStderr ==
    /\ pc = "<stderr>"
    /\ MarkerSeen(wstate[started], "<stderr>")
    /\ started' = started + 1
    /\ IF started + 1 = n_pids
       THEN \E shuffled \in Shuffles(calcs_needed) :
               LET r == MakeSublists(shuffled, n_pids)
               IN /\ keys' = r.sublists
                  /\ calcs_needed' = r.masterlist
                  /\ results' = EmptyMap
                  /\ active' = 0
                  /\ pc' = "listening"
       ELSE /\ pc' = "setup"
            /\ UNCHANGED <<keys, calcs_needed, results, active>>
    /\ UNCHANGED <<storeVars, listVars, hashVars, sideVars, inputVars, n_pids>>
    /\ UNCHANGED <<workerVars, historyVars>>

\* An expect whose marker has not come when its timeout ends raises, and
\* the exception leaves start_workers, setup_parallel and calculate_items.
ExpectTimeout ==
    /\ pc \in {"<amp-connect>", "<stderr>"}
    /\ ~MarkerSeen(wstate[started], pc)
    /\ pc' = "failed"
    /\ loose' = OnLaunchError(loose, images, calcs_needed)
    /\ UNCHANGED <<rootExists, tarExists, tar, handleVars, listVars, hashVars, sideVars>>
    /\ UNCHANGED <<inputVars, loopVars, workerVars, historyVars>>

NextLaunch ==
    \/ CalculateItems
    \/ SpawnWorker
    \/ \E w \in Pids : EmitConnect(w)
    \/ \E w \in Pids : EmitStderr(w)
    \/ ExpectConnect
    \/ ExpectStderr
    \/ ExpectTimeout
    \/ \E w \in Pids : SendPurpose(w)
    \/ \E w \in Pids : HandlePurpose(w)
    \/ \E w \in Pids : ReceivePurpose(w)

(***************************************************************************)
(* get_hash and hash_images.                                               *)
(***************************************************************************)
\* The images hash_images is given: image i and image i + NumKeys are two
\* objects that agree on pbc, cell, atomic numbers and positions, and differ
\* in what get_hash does not read.
Items == 1..(2 * NumKeys)

\* get_hash: the md5 digest of the string made of pbc, cell, atomic numbers
\* and positions; the digest of the fields of image i is key i for the
\* images 1..NumKeys, which differ in these fields.
GetHash(image) == ((image - 1) % NumKeys) + 1

\* The loop of hash_images left with break at the first duplicate.
RECURSIVE HashLoopStop(_, _, _)
HashLoopStop(list, i, dict) ==
    IF i > Len(list) \/ GetHash(list[i]) \in DOMAIN dict
    THEN [images |-> dict, duplicates |-> EmptyMap, warnings |-> 0]
    ELSE HashLoopStop(list, i + 1, MapPut(dict, GetHash(list[i]), list[i]))

HashImagesStopAtDuplicate(list) == HashLoopStop(list, 1, EmptyMap)

\* The loop of hash_images keeping the first image of each hash.
RECURSIVE HashLoopKeepFirst(_, _, _, _)
HashLoopKeepFirst(list, i, dict, logged) ==
    IF i > Len(list)
    THEN [images |-> dict, duplicates |-> EmptyMap, warnings |-> logged]
    ELSE IF GetHash(list[i]) \in DOMAIN dict
         THEN HashLoopKeepFirst(list, i + 1, dict, logged + 1)
         ELSE HashLoopKeepFirst(list, i + 1,
                                MapPut(dict, GetHash(list[i]), list[i]),
                                logged)

HashImagesKeepFirst(list) == HashLoopKeepFirst(list, 1, EmptyMap, 0)

\* for image in images: a duplicate hash is logged and counted (2 the
\* first time, then one more each time), and the image is stored under its
\* hash, replacing an earlier one.
RECURSIVE HashLoop(_, _, _, _, _)
HashLoop(list, i, dict, dup, logged) ==
    IF i > Len(list)
    THEN [images |-> dict, duplicates |-> dup, warnings |-> logged]
    ELSE LET hash == GetHash(list[i])
         IN IF hash \in DOMAIN dict
            THEN HashLoop(list, i + 1, MapPut(dict, hash, list[i]),
                          MapPut(dup, hash,
                                 IF hash \in DOMAIN dup THEN dup[hash] + 1
                                                        ELSE 2),
                          logged + 1)
            ELSE HashLoop(list, i + 1, MapPut(dict, hash, list[i]),
                          dup, logged)

\* hash_images(images) for a list of images.
HashImages(list) == HashLoop(list, 1, EmptyMap, EmptyMap, 0)

HashImagesCall ==
    /\ pc = "hash"
    /\ LET r == HashImages(items)
       IN /\ images' = r.images
          /\ duplicates' = r.duplicates
          /\ warnings' = r.warnings
    /\ pc' = "idle"
    /\ UNCHANGED <<storeVars, listVars, sideVars, items, parallel, loopVars>>
    /\ UNCHANGED <<workerVars, historyVars, passes>>

\* The lists of the second call: one image, or the same image twice.
AgainLists == {<<i>> : i \in Items} \cup {<<i, i>> : i \in Items}

\* hash_images called a second time, on another list, while the dictionary
\* the first call returned is still held. metadata is an attribute of
\* the class MetaDict: the assignment metadata['duplicates'] = {} of the
\* new call replaces the registry that every MetaDict shows.
HashImagesAgain(list) ==
    /\ pc = "idle"
    /\ passes = << >>
    /\ passes' = Append(passes, items)
    /\ items' = list
    /\ LET r == HashImages(list)
       IN /\ images' = r.images
          /\ duplicates' = r.duplicates
          /\ warnings' = r.warnings
    /\ UNCHANGED <<storeVars, listVars, sideVars, parallel, pc, loopVars>>
    /\ UNCHANGED <<workerVars, historyVars>>

NextHash ==
    \/ HashImagesCall
    \/ \E list \in AgainLists :
          HashImagesAgain(list)
    \/ CalculateItems

(***************************************************************************)
(* __setitem__ step by step, by processes with instances of their own.     *)
(***************************************************************************)
\* The processes that write to the store at the same time.
WriterProcs == {"p1", "p2"}

\* pickle.dump(value, f) reaches the file in as many writes as the buffer
\* of f is flushed: value v is a value whose serialization takes v writes.
PickleFlushes(v) == v

\* The content of a file as the pieces written: piece i of the
\* serialization of v.
PickleChunks(v) == [i \in 1..PickleFlushes(v) |-> <<v, i>>]

\* What a file holds where nothing was written below a later write.
Hole == <<0, 0>>

\* A write of one piece at position i of a file; each process writes at
\* the offset of its own file object.
WriteAt(content, i, chunk) ==
    [j \in 1..(IF Len(content) > i THEN Len(content) ELSE i) |->
        IF j = i THEN chunk
        ELSE IF j <= Len(content) THEN content[j] ELSE Hole]

\* pickle.load(f): the value whose whole serialization the file begins
\* with; what follows it is not read; any other content does not load.
PickleLoad(content) ==
    IF content = << >> THEN <<"EOFError", 0>>
    ELSE LET v == content[1][1]
         IN IF /\ v \in Values
               /\ Len(content) >= PickleFlushes(v)
               /\ \A i \in 1..PickleFlushes(v) : content[i] = <<v, i>>
            THEN Returned(v)
            ELSE <<"UnpicklingError", 0>>

\* A comparison that finds every existing file up to date.
SameContentAlways(content, v) == TRUE

\* f.read() == pickle.dumps(value)
SameContent(content, v) == content = PickleChunks(v)

WriterAt(p, at) == writers[p].pc = at

WriterStep(p, to) == writers' = [writers EXCEPT ![p].pc = to]

WriterFrame ==
    /\ UNCHANGED <<rootExists, tarExists, tar, handleVars, listVars, hashVars>>
    /\ UNCHANGED <<coresVars, atomsVars, sharedVars, masterVars>>

\* self._memdict[key] = value
WriterSetMem(p) ==
    /\ WriterAt(p, "setitem")
    /\ writers' = [writers EXCEPT
          ![p].mem = MapPut(writers[p].mem, writers[p].key, writers[p].val),
          ![p].pc = "exists"]
    /\ UNCHANGED <<loose, finished>>
    /\ WriterFrame

\* if os.path.exists(path)
WriterExists(p) ==
    /\ WriterAt(p, "exists")
    /\ WriterStep(p, IF writers[p].key \in DOMAIN loose THEN "read" ELSE "open")
    /\ UNCHANGED <<loose, finished>>
    /\ WriterFrame

\* with open(path, 'r') as f: if f.read() == pickle.dumps(value): return
WriterRead(p) ==
    /\ WriterAt(p, "read")
    /\ IF SameContent(loose[writers[p].key], writers[p].val)
       THEN /\ WriterStep(p, "done")
            /\ finished' = Append(finished, <<p, 0>>)
       ELSE /\ WriterStep(p, "open")
            /\ UNCHANGED finished
    /\ UNCHANGED loose
    /\ WriterFrame

\* open(path, 'w'): the file is created or cut to nothing.
WriterOpen(p) ==
    /\ WriterAt(p, "open")
    /\ loose' = MapPut(loose, writers[p].key, << >>)
    /\ writers' = [writers EXCEPT ![p].offset = 0, ![p].pc = "write"]
    /\ UNCHANGED finished
    /\ WriterFrame

\* pickle.dump(value, f): the next piece is written; after the last one
\* the file is closed and __setitem__ returns.
WriterFlush(p) ==
    /\ WriterAt(p, "write")
    /\ LET i == writers[p].offset + 1
           k == writers[p].key
           v == writers[p].val
       IN /\ loose' = MapPut(loose, k, WriteAt(loose[k], i, <<v, i>>))
          /\ IF i = PickleFlushes(v)
             THEN /\ writers' = [writers EXCEPT ![p].offset = i,
                                                ![p].pc = "done"]
                  /\ finished' = Append(finished, <<p, 1>>)
             ELSE /\ writers' = [writers EXCEPT ![p].offset = i]
                  /\ UNCHANGED finished
    /\ WriterFrame

NextWriters ==
    \/ \E p \in WriterProcs : WriterSetMem(p)
    \/ \E p \in WriterProcs : WriterExists(p)
    \/ \E p \in WriterProcs : WriterRead(p)
    \/ \E p \in WriterProcs : WriterOpen(p)
    \/ \E p \in WriterProcs : WriterFlush(p)

(***************************************************************************)
(* get_hash and hash_image on the fields of an atoms object.               *)
(***************************************************************************)
\* Atomic numbers, and coordinates in units of 1e-16.
Species == {1, 8}

Coords == {0, 4, 10}

\* atoms.pbc, and atoms.cell flattened.
Pbcs == {<<TRUE, TRUE, TRUE>>, <<FALSE, FALSE, FALSE>>}

Cells == {<<a, 0, 0, 0, a, 0, 0, 0, a>> : a \in {0, 10}}

\* An atoms object: the four fields get_hash reads, and tags for all that
\* it does not read.
AtomsOf(m) ==
    [pbc : Pbcs, cell : Cells, numbers : [1..m -> Species],
     positions : [1..m -> {<<x, 0, 0>> : x \in Coords}], tags : {0, 1}]

\* str(array)
Str(array) == <<"str", array>>

\* '%.15f' % number: the number rounded to fifteen decimals.
Format15(number) == <<"%.15f", (number + 5) \div 10>>

\* array.flatten() of the positions, an array of shape (natoms, 3).
RECURSIVE Flatten(_)
Flatten(rows) ==
    IF rows = << >> THEN << >> ELSE Head(rows) \o Flatten(Tail(rows))

FormatAll(numbers) == [i \in DOMAIN numbers |-> Format15(numbers[i])]

\* hashlib.md5(string).hexdigest(): different strings, different digests.
Md5(string) == <<"md5", string>>

\* A get_hash that reads the tags as well.
get_hash_tags(a) ==
    Md5(<<Str(a.pbc)>> \o FormatAll(a.cell) \o <<Str(a.numbers)>>
           \o FormatAll(Flatten(a.positions)) \o <<Str(a.tags)>>)

\* get_hash of src/amp/utilities.py
get_hash(a) ==
    Md5(<<Str(a.pbc)>> \o FormatAll(a.cell) \o <<Str(a.numbers)>>
           \o FormatAll(Flatten(a.positions)))

\* hash_image of src/utilities.py
hash_image(a) ==
    LET string1 == <<Str(a.pbc)>> \o FormatAll(a.cell)
        string2 == string1 \o <<Str(a.numbers)>>
    IN Md5(string2 \o FormatAll(Flatten(a.positions)))

\* Both functions are called on both images.
HashAtoms ==
    /\ hashes = << >>
    /\ atoms # << >>
    /\ hashes' = [get |-> <<get_hash(atoms[1]), get_hash(atoms[2])>>,
                  image |-> <<hash_image(atoms[1]), hash_image(atoms[2])>>]
    /\ UNCHANGED <<storeVars, listVars, hashVars, writerVars, coresVars, sharedVars>>
    /\ UNCHANGED <<atoms, masterVars>>

NextAtoms == HashAtoms

(***************************************************************************)
(* assign_cores                                                            *)
(***************************************************************************)
\* The environment variables assign_cores looks for, and what stands for
\* a variable that is missing or is no integer.
SchedulerVars ==
    {"SLURM_NODELIST", "PBS_NODEFILE", "LOADL_PROCESSOR_LIST", "PE_HOSTFILE"}

BadInt == 0 - 1

\* SLURM_NODELIST: names separated by commas, names in one pair of
\* brackets, or several bracketed groups; two names in each case.
NodeLists == {"names", "bracket", "brackets"}

\* The file PE_HOSTFILE names: missing, or lines "hostname nc ...", here
\* the nc of each line.
HostFiles ==
    {<<"missing", << >> >>}
        \cup {<<"lines", l>> : l \in UNION {[1..h -> {BadInt, 1, 2}] : h \in 0..2}}

Environs ==
    [vars : SUBSET SchedulerVars, nnodes : {BadInt, 1, 2},
     tasks : {BadInt} \cup (1..MaxProcs), nodelist : NodeLists,
     hostfile : HostFiles, cpus : 1..MaxProcs]

\* The cores argument: None, an integer, or a dictionary host -> count.
CoresArgs ==
    {<<"None", << >> >>} \cup {<<"int", <<c>> >> : c \in 1..MaxProcs}
        \cup {<<"dict", m>> : m \in CoreMaps}

\* A fail that raises without writing to the log.
FailQuiet(q, traceback_text, env) ==
    [status |-> "raised", value |-> <<"NotImplementedError", << >> >>,
     q |-> q, log |-> << >>]

\* fail(q, traceback_text): the message, the environment dump and the
\* traceback are logged, then NotImplementedError is raised.
Fail(q, traceback_text, env) ==
    [status |-> "raised", value |-> <<"NotImplementedError", << >> >>,
     q |-> q,
     log |-> <<"message", "Environment dump:">>
                \o (IF traceback_text THEN <<"traceback">> ELSE << >>)]

\* success(q, cores, log) and return cores
Success(q, map, logged) ==
    [status |-> "returned", value |-> <<"dict", map>>, q |-> q,
     log |-> logged \o <<"configuration">>]

\* The try block for SLURM: the core map, or an exception.
Slurm(env) ==
    IF env.nnodes = BadInt \/ env.tasks = BadInt THEN <<"except", << >> >>
    ELSE IF env.nnodes = 1 THEN <<"cores", <<env.tasks>> >>
    ELSE IF env.nodelist = "brackets" THEN <<"except", << >> >>
    ELSE <<"cores", <<env.tasks, env.tasks>> >>

\* The try block for SGE.
Sge(env) ==
    IF env.hostfile[1] = "missing" THEN <<"except", << >> >>
    ELSE IF \E i \in DOMAIN env.hostfile[2] : env.hostfile[2][i] = BadInt
    THEN <<"except", << >> >>
    ELSE <<"cores", env.hostfile[2]>>

\* A last branch that fails instead of assuming a single machine.
SingleMachineFail(env) == Fail("<single machine>", FALSE, env)

\* No queuing system detected: multiprocessing.cpu_count() on localhost.
SingleMachine(env) ==
    Success("<single machine>", <<env.cpus>>, <<"single machine assumed">>)

assign_cores(c, env) ==
    IF c[1] # "None"
    THEN IF c = <<"int", <<1>> >>
         THEN [status |-> "returned", value |-> c, q |-> "<user-specified>",
               log |-> <<"serial">>]
         ELSE Success("<user-specified>", c[2], << >>)
    ELSE IF "SLURM_NODELIST" \in env.vars
    THEN IF Slurm(env)[1] = "except" THEN Fail("SLURM", TRUE, env)
         ELSE Success("SLURM", Slurm(env)[2], << >>)
    ELSE IF "PBS_NODEFILE" \in env.vars THEN Fail("PBS", FALSE, env)
    ELSE IF "LOADL_PROCESSOR_LIST" \in env.vars THEN Fail("LOADL", FALSE, env)
    ELSE IF "PE_HOSTFILE" \in env.vars
    THEN IF Sge(env)[1] = "except" THEN Fail("SGE", TRUE, env)
         ELSE Success("SGE", Sge(env)[2], << >>)
    ELSE SingleMachine(env)

AssignCoresCall ==
    /\ assigned = << >>
    /\ cores # << >>
    /\ assigned' = assign_cores(cores, environ)
    /\ UNCHANGED <<storeVars, listVars, hashVars, writerVars, atomsVars, sharedVars>>
    /\ UNCHANGED <<cores, environ, masterVars>>

NextCores == AssignCoresCall

(***************************************************************************)
(* FileDatabase: the other calls, and a second process.                    *)
(***************************************************************************)
\* archive() step by step. The call in progress: where it is, the archive
\* members still to extract, the loose files listed, those still to add or
\* to remove, and whether the archive file is closed.
ArchIdle ==
    [pc |-> "idle", names |-> {}, loosefiles |-> {}, rest |-> {},
     whole |-> TRUE]

\* An archive() that extracts nothing.
ArchiveNamesNone(l, t) == {}

\* names = [_ for _ in tf.getnames() if _ not in os.listdir(self.loosepath)]
ArchiveNames(l, t) == (DOMAIN t) \ (DOMAIN l)

ArchiveFrame ==
    /\ UNCHANGED <<rootExists, memdict, isOpen, path, other>>
    /\ UNCHANGED <<listVars, hashVars, writerVars, coresVars, atomsVars, masterVars>>

\* loosefiles = os.listdir(...); return if there is none; with an archive,
\* the members to extract.
ArchiveList ==
    /\ isOpen
    /\ arch.pc = "idle"
    /\ last' = Call("archive", 0, 0, NoRet, Disk(loose, tarExists, tar))
    /\ arch' = IF DOMAIN loose = {} THEN [arch EXCEPT !.pc = "done"]
               ELSE IF tarExists
               THEN [arch EXCEPT !.pc = "extract",
                                 !.names = ArchiveNames(loose, tar)]
               ELSE [arch EXCEPT !.pc = "relist"]
    /\ UNCHANGED <<loose, tarExists, tar>>
    /\ ArchiveFrame

\* tf.extract(member=name, path=self.loosepath)
ArchiveExtractOne(name) ==
    /\ arch.pc = "extract"
    /\ name \in arch.names
    /\ loose' = MapPut(loose, name, tar[name])
    /\ arch' = [arch EXCEPT !.names = arch.names \ {name}]
    /\ UNCHANGED <<tarExists, tar, last>>
    /\ ArchiveFrame

\* loosefiles = os.listdir(self.loosepath), after the extraction
ArchiveRelist ==
    /\ arch.pc = "relist" \/ (arch.pc = "extract" /\ arch.names = {})
    /\ arch' = [arch EXCEPT !.pc = "open", !.loosefiles = DOMAIN loose]
    /\ UNCHANGED <<loose, tarExists, tar, last>>
    /\ ArchiveFrame

\* tarfile.open(self.tarpath, 'w:gz'): the archive file is truncated.
ArchiveOpenTar ==
    /\ arch.pc = "open"
    /\ tar' = EmptyMap
    /\ tarExists' = TRUE
    /\ arch' = [arch EXCEPT !.pc = "add", !.rest = arch.loosefiles,
                            !.whole = FALSE]
    /\ UNCHANGED <<loose, last>>
    /\ ArchiveFrame

\* tf.add(name=os.path.join(self.loosepath, file), arcname=file)
ArchiveAddOne(file) ==
    /\ arch.pc = "add"
    /\ file \in arch.rest
    /\ tar' = MapPut(tar, file, loose[file])
    /\ arch' = [arch EXCEPT !.rest = arch.rest \ {file}]
    /\ UNCHANGED <<loose, tarExists, last>>
    /\ ArchiveFrame

\* The end of the with block: the archive file is closed.
ArchiveClose ==
    /\ arch.pc = "add"
    /\ arch.rest = {}
    /\ arch' = [arch EXCEPT !.pc = IF arch.loosefiles = {} THEN "done"
                                   ELSE "remove",
                            !.rest = arch.loosefiles, !.whole = TRUE]
    /\ UNCHANGED <<loose, tarExists, tar, last>>
    /\ ArchiveFrame

\* os.remove(os.path.join(self.loosepath, file))
ArchiveRemoveOne(file) ==
    /\ arch.pc = "remove"
    /\ file \in arch.rest
    /\ loose' = ArchiveRemove(loose, {file})
    /\ arch' = [arch EXCEPT !.rest = arch.rest \ {file},
                            !.pc = IF arch.rest = {file} THEN "done"
                                   ELSE "remove"]
    /\ UNCHANGED <<tarExists, tar, last>>
    /\ ArchiveFrame

\* keys()
KeysCall ==
    /\ isOpen
    /\ last' = Call("keys", 0, 0,
                    <<"keys", Cardinality(DbKeys(loose, tarExists, tar))>>,
                    NoDisk)
    /\ UNCHANGED <<rootExists, loose, tarExists, tar, memdict, isOpen, path>>
    /\ UNCHANGED <<listVars, hashVars, sideVars, masterVars>>

\* values(): [self[key] for key in self.keys()]; __getitem__ returns what
\* it reads and assigns nothing to _memdict.
ValuesCall ==
    /\ isOpen
    /\ last' = Call("values", 0, 0,
                    <<"values", Cardinality(DbKeys(loose, tarExists, tar))>>,
                    NoDisk)
    /\ UNCHANGED <<rootExists, loose, tarExists, tar, memdict, isOpen, path>>
    /\ UNCHANGED <<listVars, hashVars, sideVars, masterVars>>

\* update(newitems)
UpdateCall(newitems) ==
    /\ isOpen
    /\ memdict' = [x \in (DOMAIN memdict) \cup (DOMAIN newitems) |->
                      IF x \in DOMAIN newitems THEN newitems[x]
                                               ELSE memdict[x]]
    /\ loose' = Update(loose, newitems)
    /\ last' = Call("update", 0, 0, NoRet, NoDisk)
    /\ UNCHANGED <<rootExists, tarExists, tar, isOpen, path>>
    /\ UNCHANGED <<listVars, hashVars, sideVars, masterVars>>

\* Another process, with a FileDatabase instance of its own on the same
\* path, completes one __setitem__.
OtherPut(k, v) ==
    /\ rootExists
    /\ other = << >>
    /\ other' = <<k, v>>
    /\ loose' = SetItemLoose(loose, k, v)
    /\ UNCHANGED <<rootExists, tarExists, tar, handleVars, arch>>
    /\ UNCHANGED <<listVars, hashVars, writerVars, coresVars, atomsVars, masterVars>>

\* archive() by one process while another may complete a put.
CompactNext ==
    \/ ArchiveList
    \/ \E name \in Keys : ArchiveExtractOne(name)
    \/ ArchiveRelist
    \/ ArchiveOpenTar
    \/ \E file \in Keys : ArchiveAddOne(file)
    \/ ArchiveClose
    \/ \E file \in Keys : ArchiveRemoveOne(file)
    \/ \E k \in Keys, v \in Values :
          arch.pc \notin {"idle", "done"} /\ OtherPut(k, v)

CacheNext ==
    \/ StoreNext
    \/ KeysCall
    \/ ValuesCall
    \/ \E newitems \in UNION {[S -> Values] : S \in SUBSET Keys} :
          UpdateCall(newitems)
    \/ \E k \in Keys, v \in Values : OtherPut(k, v)

(***************************************************************************)
(* The specifications.                                                     *)
(***************************************************************************)
\* FileDatabase alone: a path with no store yet, and any sequence of calls.
InitStore ==
    /\ rootExists = FALSE
    /\ loose = EmptyMap
    /\ tarExists = FALSE
    /\ tar = EmptyMap
    /\ memdict = EmptyMap
    /\ isOpen = FALSE
    /\ last = [op |-> "none", key |-> 0, val |-> 0, ret |-> NoRet,
               prev |-> "none", pre |-> NoDisk]
    /\ masterlist = << >>
    /\ n = 1
    /\ sublists = << >>
    /\ given = <<"none", << >> >>
    /\ images = EmptyMap
    /\ parallel = [serial |-> TRUE, cores |-> << >>]
    /\ pc = "off"
    /\ calcs_needed = << >>
    /\ keys = << >>
    /\ results = EmptyMap
    /\ active = 0
    /\ n_pids = 0
    /\ started = 0
    /\ wstate = AllOff
    /\ wdata = NoData
    /\ message = NoMessages
    /\ reply = NoReplies
    /\ entry = NoDisk
    /\ calculated = NoCalls
    /\ writes = 0
    /\ reported = {}
    /\ how = "none"
    /\ again = FALSE
    /\ items = << >>
    /\ duplicates = EmptyMap
    /\ warnings = 0
    /\ passes = << >>
    /\ path = << >>
    /\ writers = << >>
    /\ finished = << >>
    /\ cores = << >>
    /\ environ = << >>
    /\ assigned = << >>
    /\ atoms = << >>
    /\ hashes = << >>
    /\ arch = << >>
    /\ other = << >>

SpecStore == InitStore /\ [][StoreNext]_vars

\* FileDatabase with all its calls, and one put by another process.
SpecCache == InitStore /\ [][CacheNext]_vars

\* archive() step by step on a store holding any loose files and any
\* archive, with an instance open on it.
InitCompact ==
    /\ rootExists = TRUE
    /\ loose \in UNION {[L -> {Dumps(v) : v \in Values}] : L \in SUBSET Keys}
    /\ tar \in UNION {[A -> {Dumps(v) : v \in Values}] : A \in SUBSET Keys}
    /\ tarExists = (DOMAIN tar # {})
    /\ memdict = EmptyMap
    /\ isOpen = TRUE
    /\ last = [op |-> "none", key |-> 0, val |-> 0, ret |-> NoRet,
               prev |-> "none", pre |-> NoDisk]
    /\ masterlist = << >>
    /\ n = 1
    /\ sublists = << >>
    /\ given = <<"none", << >> >>
    /\ images = EmptyMap
    /\ parallel = [serial |-> TRUE, cores |-> << >>]
    /\ pc = "off"
    /\ calcs_needed = << >>
    /\ keys = << >>
    /\ results = EmptyMap
    /\ active = 0
    /\ n_pids = 0
    /\ started = 0
    /\ wstate = AllOff
    /\ wdata = NoData
    /\ message = NoMessages
    /\ reply = NoReplies
    /\ entry = NoDisk
    /\ calculated = NoCalls
    /\ writes = 0
    /\ reported = {}
    /\ how = "none"
    /\ again = FALSE
    /\ items = << >>
    /\ duplicates = EmptyMap
    /\ warnings = 0
    /\ passes = << >>
    /\ path = StorePath
    /\ writers = << >>
    /\ finished = << >>
    /\ cores = << >>
    /\ environ = << >>
    /\ assigned = << >>
    /\ atoms = << >>
    /\ hashes = << >>
    /\ arch = ArchIdle
    /\ other = << >>

SpecCompact == InitCompact /\ [][CompactNext]_vars

\* make_sublists alone: any list of at most MaxLen names, any n in Counts.
InitList ==
    /\ rootExists = FALSE
    /\ loose = EmptyMap
    /\ tarExists = FALSE
    /\ tar = EmptyMap
    /\ memdict = EmptyMap
    /\ isOpen = FALSE
    /\ last = [op |-> "none", key |-> 0, val |-> 0, ret |-> NoRet,
               prev |-> "none", pre |-> NoDisk]
    /\ masterlist \in UNION {[1..L -> ListKeys] : L \in 0..MaxLen}
    /\ n \in Counts
    /\ sublists = << >>
    /\ given = <<"list", masterlist>>
    /\ images = EmptyMap
    /\ parallel = [serial |-> TRUE, cores |-> << >>]
    /\ pc = "off"
    /\ calcs_needed = << >>
    /\ keys = << >>
    /\ results = EmptyMap
    /\ active = 0
    /\ n_pids = 0
    /\ started = 0
    /\ wstate = AllOff
    /\ wdata = NoData
    /\ message = NoMessages
    /\ reply = NoReplies
    /\ entry = NoDisk
    /\ calculated = NoCalls
    /\ writes = 0
    /\ reported = {}
    /\ how = "none"
    /\ again = FALSE
    /\ items = << >>
    /\ duplicates = EmptyMap
    /\ warnings = 0
    /\ passes = << >>
    /\ path = << >>
    /\ writers = << >>
    /\ finished = << >>
    /\ cores = << >>
    /\ environ = << >>
    /\ assigned = << >>
    /\ atoms = << >>
    /\ hashes = << >>
    /\ arch = << >>
    /\ other = << >>

SpecList == InitList /\ [][ListNext]_vars

\* calculate_items: a store holding any of the keys, each loose or archived,
\* any images dictionary over Keys, serial operation or any core dictionary.
Init ==
    /\ rootExists \in BOOLEAN
    /\ \E L \in SUBSET Keys :
          loose = [k \in L |-> Dumps(Calculate(Image(k), k))]
    /\ \E A \in SUBSET (Keys \ DOMAIN loose) :
          tar = [k \in A |-> Dumps(Calculate(Image(k), k))]
    /\ tarExists = (DOMAIN tar # {})
    /\ (DOMAIN loose # {} \/ tarExists) => rootExists
    /\ memdict = EmptyMap
    /\ isOpen = FALSE
    /\ last = [op |-> "none", key |-> 0, val |-> 0, ret |-> NoRet,
               prev |-> "none", pre |-> NoDisk]
    /\ masterlist = << >>
    /\ n = 1
    /\ sublists = << >>
    /\ given = <<"none", << >> >>
    /\ \E S \in SUBSET Keys : images = [k \in S |-> Image(k)]
    /\ parallel \in Parallels
    /\ pc = "idle"
    /\ calcs_needed = << >>
    /\ keys = << >>
    /\ results = EmptyMap
    /\ active = 0
    /\ n_pids = 0
    /\ started = 0
    /\ wstate = AllOff
    /\ wdata = NoData
    /\ message = NoMessages
    /\ reply = NoReplies
    /\ entry = NoDisk
    /\ calculated = NoCalls
    /\ writes = 0
    /\ reported = {}
    /\ how = "none"
    /\ again = FALSE
    /\ items = << >>
    /\ duplicates = EmptyMap
    /\ warnings = 0
    /\ passes = << >>
    /\ path = << >>
    /\ writers = << >>
    /\ finished = << >>
    /\ cores = << >>
    /\ environ = << >>
    /\ assigned = << >>
    /\ atoms = << >>
    /\ hashes = << >>
    /\ arch = << >>
    /\ other = << >>

Spec == Init /\ [][Next]_vars

\* calculate_items with workers that may send '<info>' and '<request>'
\* before '<purpose>'.
SpecAnyOrder == Init /\ [][NextAnyOrder]_vars

\* calculate_items with workers that go on: every message sent is received
\* while the loop runs, every reply is read, a started worker sends its
\* '<purpose>', and after finitely many '<request>' and '<info>' messages
\* it asks for its images and sends its '<result>'.
Fairness ==
    \A w \in Pids :
        /\ WF_vars(HandlePurpose(w))
        /\ WF_vars(HandleRequest(w))
        /\ WF_vars(HandleResult(w))
        /\ WF_vars(HandleInfo(w))
        /\ WF_vars(SendPurpose(w))
        /\ WF_vars(ReceivePurpose(w))
        /\ WF_vars(ReceiveImages(w))
        /\ WF_vars(ReceiveVariable(w))
        /\ WF_vars(ReceiveInfoReply(w))
        /\ SF_vars(WorkerSend(w, "ready", "request", "<request>", "images"))
        /\ SF_vars(SendResult(w))

\* The store is new; any images dictionary, serial operation or any core
\* dictionary.
InitLive ==
    /\ rootExists = FALSE
    /\ loose = EmptyMap
    /\ tar = EmptyMap
    /\ tarExists = (DOMAIN tar # {})
    /\ (DOMAIN loose # {} \/ tarExists) => rootExists
    /\ memdict = EmptyMap
    /\ isOpen = FALSE
    /\ last = [op |-> "none", key |-> 0, val |-> 0, ret |-> NoRet,
               prev |-> "none", pre |-> NoDisk]
    /\ masterlist = << >>
    /\ n = 1
    /\ sublists = << >>
    /\ given = <<"none", << >> >>
    /\ \E S \in SUBSET Keys : images = [k \in S |-> Image(k)]
    /\ parallel \in Parallels
    /\ pc = "idle"
    /\ calcs_needed = << >>
    /\ keys = << >>
    /\ results = EmptyMap
    /\ active = 0
    /\ n_pids = 0
    /\ started = 0
    /\ wstate = AllOff
    /\ wdata = NoData
    /\ message = NoMessages
    /\ reply = NoReplies
    /\ entry = NoDisk
    /\ calculated = NoCalls
    /\ writes = 0
    /\ reported = {}
    /\ how = "none"
    /\ again = FALSE
    /\ items = << >>
    /\ duplicates = EmptyMap
    /\ warnings = 0
    /\ passes = << >>
    /\ path = << >>
    /\ writers = << >>
    /\ finished = << >>
    /\ cores = << >>
    /\ environ = << >>
    /\ assigned = << >>
    /\ atoms = << >>
    /\ hashes = << >>
    /\ arch = << >>
    /\ other = << >>

SpecLive == InitLive /\ [][Next]_vars /\ Fairness

\* hash_images and then calculate_items in serial operation: any list of
\* at most MaxItems images, and a store holding any of the keys.
InitHash ==
    /\ rootExists \in BOOLEAN
    /\ \E L \in SUBSET Keys :
          loose = [k \in L |-> Dumps(Calculate(Image(k), k))]
    /\ \E A \in SUBSET (Keys \ DOMAIN loose) :
          tar = [k \in A |-> Dumps(Calculate(Image(k), k))]
    /\ tarExists = (DOMAIN tar # {})
    /\ (DOMAIN loose # {} \/ tarExists) => rootExists
    /\ memdict = EmptyMap
    /\ isOpen = FALSE
    /\ last = [op |-> "none", key |-> 0, val |-> 0, ret |-> NoRet,
               prev |-> "none", pre |-> NoDisk]
    /\ masterlist = << >>
    /\ n = 1
    /\ sublists = << >>
    /\ given = <<"none", << >> >>
    /\ images = EmptyMap
    /\ parallel = [serial |-> TRUE, cores |-> << >>]
    /\ pc = "hash"
    /\ calcs_needed = << >>
    /\ keys = << >>
    /\ results = EmptyMap
    /\ active = 0
    /\ n_pids = 0
    /\ started = 0
    /\ wstate = AllOff
    /\ wdata = NoData
    /\ message = NoMessages
    /\ reply = NoReplies
    /\ entry = NoDisk
    /\ calculated = NoCalls
    /\ writes = 0
    /\ reported = {}
    /\ how = "none"
    /\ again = FALSE
    /\ items \in UNION {[1..L -> Items] : L \in 0..MaxItems}
    /\ duplicates = EmptyMap
    /\ warnings = 0
    /\ passes = << >>
    /\ path = << >>
    /\ writers = << >>
    /\ finished = << >>
    /\ cores = << >>
    /\ environ = << >>
    /\ assigned = << >>
    /\ atoms = << >>
    /\ hashes = << >>
    /\ arch = << >>
    /\ other = << >>

SpecHash == InitHash /\ [][NextHash]_vars

\* calculate_items with the launch of the workers step by step, up to the
\* first messages of the loop.
SpecLaunch == Init /\ [][NextLaunch]_vars

\* Two processes, each with a FileDatabase instance of its own on the
\* same path, each doing one __setitem__; the loose directory holds any of
\* the keys with any values.
InitWriters ==
    /\ rootExists = TRUE
    /\ loose \in UNION {[L -> {PickleChunks(v) : v \in Values}] :
                          L \in SUBSET Keys}
    /\ tarExists = FALSE
    /\ tar = EmptyMap
    /\ memdict = EmptyMap
    /\ isOpen = FALSE
    /\ last = [op |-> "none", key |-> 0, val |-> 0, ret |-> NoRet,
               prev |-> "none", pre |-> NoDisk]
    /\ masterlist = << >>
    /\ n = 1
    /\ sublists = << >>
    /\ given = <<"none", << >> >>
    /\ images = EmptyMap
    /\ parallel = [serial |-> TRUE, cores |-> << >>]
    /\ pc = "off"
    /\ calcs_needed = << >>
    /\ keys = << >>
    /\ results = EmptyMap
    /\ active = 0
    /\ n_pids = 0
    /\ started = 0
    /\ wstate = AllOff
    /\ wdata = NoData
    /\ message = NoMessages
    /\ reply = NoReplies
    /\ entry = NoDisk
    /\ calculated = NoCalls
    /\ writes = 0
    /\ reported = {}
    /\ how = "none"
    /\ again = FALSE
    /\ items = << >>
    /\ duplicates = EmptyMap
    /\ warnings = 0
    /\ passes = << >>
    /\ path = StorePath
    /\ writers \in [WriterProcs ->
                      {[pc |-> "setitem", key |-> k, val |-> v,
                        mem |-> EmptyMap, offset |-> 0] :
                          k \in Keys, v \in Values}]
    /\ finished = << >>
    /\ cores = << >>
    /\ environ = << >>
    /\ assigned = << >>
    /\ atoms = << >>
    /\ hashes = << >>
    /\ arch = << >>
    /\ other = << >>

SpecWriters == InitWriters /\ [][NextWriters]_vars

\* get_hash and hash_image on two images of the same size, periodic
\* boundary flags and cell.
InitAtoms ==
    /\ rootExists = FALSE
    /\ loose = EmptyMap
    /\ tarExists = FALSE
    /\ tar = EmptyMap
    /\ memdict = EmptyMap
    /\ isOpen = FALSE
    /\ last = [op |-> "none", key |-> 0, val |-> 0, ret |-> NoRet,
               prev |-> "none", pre |-> NoDisk]
    /\ masterlist = << >>
    /\ n = 1
    /\ sublists = << >>
    /\ given = <<"none", << >> >>
    /\ images = EmptyMap
    /\ parallel = [serial |-> TRUE, cores |-> << >>]
    /\ pc = "off"
    /\ calcs_needed = << >>
    /\ keys = << >>
    /\ results = EmptyMap
    /\ active = 0
    /\ n_pids = 0
    /\ started = 0
    /\ wstate = AllOff
    /\ wdata = NoData
    /\ message = NoMessages
    /\ reply = NoReplies
    /\ entry = NoDisk
    /\ calculated = NoCalls
    /\ writes = 0
    /\ reported = {}
    /\ how = "none"
    /\ again = FALSE
    /\ items = << >>
    /\ duplicates = EmptyMap
    /\ warnings = 0
    /\ passes = << >>
    /\ path = << >>
    /\ writers = << >>
    /\ finished = << >>
    /\ cores = << >>
    /\ environ = << >>
    /\ assigned = << >>
    /\ \E m \in 1..MaxAtoms :
          \E a \in AtomsOf(m), b \in AtomsOf(m) :
             /\ a.pbc = b.pbc
             /\ a.cell = b.cell
             /\ atoms = <<a, b>>
    /\ hashes = << >>
    /\ arch = << >>
    /\ other = << >>

SpecAtoms == InitAtoms /\ [][NextAtoms]_vars

\* assign_cores with any cores argument in any environment.
InitCores ==
    /\ rootExists = FALSE
    /\ loose = EmptyMap
    /\ tarExists = FALSE
    /\ tar = EmptyMap
    /\ memdict = EmptyMap
    /\ isOpen = FALSE
    /\ last = [op |-> "none", key |-> 0, val |-> 0, ret |-> NoRet,
               prev |-> "none", pre |-> NoDisk]
    /\ masterlist = << >>
    /\ n = 1
    /\ sublists = << >>
    /\ given = <<"none", << >> >>
    /\ images = EmptyMap
    /\ parallel = [serial |-> TRUE, cores |-> << >>]
    /\ pc = "off"
    /\ calcs_needed = << >>
    /\ keys = << >>
    /\ results = EmptyMap
    /\ active = 0
    /\ n_pids = 0
    /\ started = 0
    /\ wstate = AllOff
    /\ wdata = NoData
    /\ message = NoMessages
    /\ reply = NoReplies
    /\ entry = NoDisk
    /\ calculated = NoCalls
    /\ writes = 0
    /\ reported = {}
    /\ how = "none"
    /\ again = FALSE
    /\ items = << >>
    /\ duplicates = EmptyMap
    /\ warnings = 0
    /\ passes = << >>
    /\ path = << >>
    /\ writers = << >>
    /\ finished = << >>
    /\ cores \in CoresArgs
    /\ environ \in Environs
    /\ assigned = << >>
    /\ atoms = << >>
    /\ hashes = << >>
    /\ arch = << >>
    /\ other = << >>

SpecCores == InitCores /\ [][NextCores]_vars

(***************************************************************************)
(* Claims about FileDatabase, checked under SpecStore.                     *)
(***************************************************************************)
\* What a freshly opened instance (empty memory dictionary) reads for k.
FreshGet(d, k) == GetItem(EmptyMap, d.loose, d.tarExists, d.tar, k)

Now == Disk(loose, tarExists, tar)

\* C5: store round trip. After __setitem__(k, v), __getitem__(k) returns v
\* on the same instance and on a freshly opened instance of the same path,
\* whether k was before in loose, in the archive or nowhere.
C5_RoundTrip ==
    last.op = "setitem" =>
        /\ GetItem(memdict, loose, tarExists, tar, last.key) = Returned(last.val)
        /\ FreshGet(Now, last.key) = Returned(last.val)

\* k was archived with another value, and has just been put.
C5_Witness ==
    /\ last.op = "setitem"
    /\ tarExists
    /\ last.key \in DOMAIN tar
    /\ Loads(tar[last.key]) # last.val
    /\ FreshGet(Now, last.key) = Returned(last.val)

\* C6: get precedence. __getitem__(k) returns the memory value if k is in
\* the memory dictionary, else the loose file's value if there is one, else
\* the archive member's value.
C6_GetPrecedence ==
    last.op = "getitem" =>
        LET k == last.key IN
        /\ k \in DOMAIN memdict => last.ret = Returned(memdict[k])
        /\ (k \notin DOMAIN memdict /\ k \in DOMAIN loose)
              => last.ret = Returned(Loads(loose[k]))
        /\ (k \notin DOMAIN memdict /\ k \notin DOMAIN loose
              /\ tarExists /\ k \in DOMAIN tar)
              => last.ret = Returned(Loads(tar[k]))

\* k has value A in the archive and B in loose, is not in memory, and get
\* returned B.
C6_Witness ==
    /\ last.op = "getitem"
    /\ last.key \notin DOMAIN memdict
    /\ last.key \in DOMAIN loose
    /\ tarExists
    /\ last.key \in DOMAIN tar
    /\ tar[last.key] # loose[last.key]
    /\ last.ret = Returned(Loads(loose[last.key]))

\* C7: compaction never loses the most recent value. After archive() the
\* key set is the one before, and a freshly opened instance reads for every
\* key the value it read before (the loose value where both existed).
C7_ArchiveKeepsValues ==
    last.op = "archive" =>
        /\ DbKeys(loose, tarExists, tar)
              = DbKeys(last.pre.loose, last.pre.tarExists, last.pre.tar)
        /\ \A k \in Keys : FreshGet(Now, k) = FreshGet(last.pre, k)

\* archive() ran on a store holding one key in both forms with different
\* values and another key in the archive only.
C7_Witness ==
    /\ last.op = "archive"
    /\ last.pre.tarExists
    /\ \E k \in (DOMAIN last.pre.loose) \cap (DOMAIN last.pre.tar) :
          /\ last.pre.loose[k] # last.pre.tar[k]
          /\ FreshGet(Now, k) = Returned(Loads(last.pre.loose[k]))
    /\ \E k \in (DOMAIN last.pre.tar) \ (DOMAIN last.pre.loose) :
          FreshGet(Now, k) = Returned(Loads(last.pre.tar[k]))

\* C8: compaction idempotence. A second archive() right after a first one
\* finds no loose entries and leaves the loose set, the archive, keys() and
\* every value as the first one left them.
C8_ArchiveIdempotent ==
    (last.op = "archive" /\ last.prev = "archive") =>
        /\ DOMAIN last.pre.loose = {}
        /\ Now = last.pre

\* Two archive() calls in succession on a store with archived entries.
C8_Witness ==
    /\ last.op = "archive"
    /\ last.prev = "archive"
    /\ tarExists
    /\ DOMAIN tar = Keys


(***************************************************************************)
(* Claims about make_sublists, checked under SpecList.                     *)
(***************************************************************************)
\* C9: partition coverage and balance. For a list of L distinct keys and
\* 1 <= n <= L, whatever the shuffle, the sublists are pairwise disjoint,
\* their union is the input key set, and their lengths differ by at most 1.
C9_PartitionCoverage ==
    (given[1] = "returned" /\ Distinct(given[2])
        /\ 1 <= n /\ n <= Len(given[2])) =>
        /\ \A i, j \in DOMAIN sublists :
              i # j => Range(sublists[i]) \cap Range(sublists[j]) = {}
        /\ \A i \in DOMAIN sublists : Distinct(sublists[i])
        /\ UNION {Range(sublists[i]) : i \in DOMAIN sublists} = Range(given[2])
        /\ \A i, j \in DOMAIN sublists :
              Len(sublists[i]) - Len(sublists[j]) <= 1

\* Three distinct keys were split over two workers, unevenly.
C9_Witness ==
    /\ given[1] = "returned"
    /\ Distinct(given[2])
    /\ Len(given[2]) = 3
    /\ n = 2
    /\ Len(sublists) = 2
    /\ Len(sublists[1]) = 2
    /\ Len(sublists[2]) = 1

\* C10: make_sublists returns exactly n sublists for every n >= 1, also
\* when n exceeds the length N of the list; the first N mod n have length
\* N div n + 1 and the others N div n; and the list passed in is left empty.
C10_SublistShape ==
    given[1] = "returned" =>
        LET N == Len(given[2]) IN
        /\ Len(sublists) = n
        /\ \A i \in 1..n :
              Len(sublists[i]) = IF i <= N % n THEN N \div n + 1 ELSE N \div n
        /\ masterlist = << >>

\* More sublists asked for than there are elements: the surplus are empty.
C10_Witness ==
    /\ given[1] = "returned"
    /\ n > Len(given[2])
    /\ Len(given[2]) >= 1
    /\ Len(sublists) = n
    /\ sublists[n] = << >>
    /\ Len(sublists[1]) = 1
    /\ masterlist = << >>


(***************************************************************************)
(* Claims about Data.calculate_items, checked under Spec.                  *)
(***************************************************************************)
\* The keys a store on disk d holds.
StoredKeys(d) == (DOMAIN d.loose) \cup (IF d.tarExists THEN DOMAIN d.tar ELSE {})

\* The keys of images the store did not hold when calculate_items began.
Missing == (DOMAIN images) \ StoredKeys(entry)

KeysOf(ks) == UNION {Range(ks[i]) : i \in DOMAIN ks}

\* C1: after calculate_items returns, on the serial and on the distributed
\* path, every key of images has a record in the store.
C1_AllStored == pc = "returned" => (DOMAIN images) \subseteq StoredKeys(Now)

\* C2: when the coordination loop exits, every launched worker, ids 0 to
\* n_pids - 1, has had its '<result>' message received and merged.
C2_AllReported ==
    (pc = "returned" /\ how = "distributed") =>
        /\ reported = 0..(n_pids - 1)
        /\ KeysOf(keys) \subseteq DOMAIN results

\* C3: if every key of images is in the store when calculate_items is
\* called, it calls __setitem__ never, leaves the loose directory and the
\* archive as they were, and starts no worker, whatever parallel['cores'].
C3_NothingNeeded ==
    (pc = "returned" /\ (DOMAIN images) \subseteq StoredKeys(entry)) =>
        /\ writes = 0
        /\ Now = entry
        /\ started = 0
        /\ \A w \in Pids : wstate[w] = "off"

\* All images were stored, one of them only in the archive, and several
\* cores were asked for.
C3_Witness ==
    /\ pc = "returned"
    /\ how = "nothing"
    /\ ~parallel.serial
    /\ DOMAIN images = Keys
    /\ \E k \in DOMAIN images : k \notin DOMAIN entry.loose
    /\ writes = 0
    /\ started = 0

\* C4: calculate_items computes only what is missing at entry. The serial
\* path calls calc.calculate once for each missing key and never for a
\* stored key; the distributed path partitions exactly the missing keys;
\* and so does a call that follows one which left keys unstored.
C4_OnlyMissing ==
    /\ how = "nothing" => (Missing = {} /\ \A k \in Keys : calculated[k] = 0)
    /\ how = "serial" =>
          \A k \in Keys : calculated[k] = IF k \in Missing THEN 1 ELSE 0
    /\ (how = "distributed" /\ pc = "setup") =>
          (Range(calcs_needed) = Missing /\ Distinct(calcs_needed))
    /\ (how = "distributed" /\ pc \in {"listening", "returned"}) =>
          /\ KeysOf(keys) = Missing
          /\ \A i, j \in DOMAIN keys :
                i # j => Range(keys[i]) \cap Range(keys[j]) = {}
          /\ \A k \in Keys : calculated[k] = 0

\* A second call, after a first one that stored one key and left another
\* unstored, partitions the key left over.
C4_Witness ==
    /\ again
    /\ how = "distributed"
    /\ pc = "listening"
    /\ Missing # {}
    /\ Missing # DOMAIN images
    /\ KeysOf(keys) = Missing
    /\ \E k \in (DOMAIN images) \ Missing : k \notin DOMAIN tar

(***************************************************************************)
(* Claims about the coordination loop, checked under Spec.                 *)
(***************************************************************************)
\* What the serial path leaves in the loose directory when it starts from
\* the store d: one record for every key of images that d does not hold.
SerialStore(d) ==
    SerialLoop(d.loose, images,
               CHOOSE l \in ListsOf((DOMAIN images) \ StoredKeys(d)) : TRUE, 1)

\* C11: distributed equivalence. From the same images and the same store,
\* the distributed path ends, for every interleaving of the messages, with
\* the store the serial path ends with: the same keys and the same value
\* for every key.
C11_SameAsSerial ==
    (pc = "returned" /\ how = "distributed") =>
        /\ loose = SerialStore(entry)
        /\ tarExists = entry.tarExists
        /\ tar = entry.tar

\* Worker w has sent '<purpose>' and has not sent '<result>'.
Stalled(w) == wstate[w] \in {"purpose", "ready", "request", "asking",
                             "loaded", "info"}

\* C12: liveness gap. While a worker has sent '<purpose>' and not sent
\* '<result>', the coordination loop has not ended: active is at least 1
\* once its '<purpose>' is received, and the server stays in the loop.
C12_StalledWorkerBlocks ==
    \A w \in Pids : (how = "distributed" /\ Stalled(w)) => pc # "returned"

\* C13: the reply to a '<request>' for the images, or for a keyed variable,
\* of worker i holds exactly the keys of sublist i, each with images[k]
\* (or the keyed variable's entry for k), and no key of another sublist.
C13_OwnKeysOnly ==
    \A w \in Pids :
        reply[w][1] \in {"images", "keyed"} =>
            /\ DOMAIN reply[w][2] = Range(keys[w + 1])
            /\ \A v \in DOMAIN keys :
                  v # w + 1 => (DOMAIN reply[w][2]) \cap Range(keys[v]) = {}
            /\ reply[w][1] = "images" =>
                  \A k \in DOMAIN reply[w][2] : reply[w][2][k] = images[k]
            /\ reply[w][1] = "keyed" =>
                  \A k \in DOMAIN reply[w][2] :
                      \E name \in KeyedNames :
                          reply[w][2][k] = CalcKeyed(name, k)

\* Worker 0 is answered with its images while worker 1 holds other keys.
C13_Witness ==
    /\ pc = "listening"
    /\ Len(keys) >= 2
    /\ Range(keys[1]) # {}
    /\ Range(keys[2]) # {}
    /\ reply[0][1] = "images"
    /\ DOMAIN reply[0][2] = Range(keys[1])

\* C14: a pass of the loop that receives a '<result>' acknowledges it,
\* lowers active by one and merges the payload into results, the payload
\* overriding on equal keys, before the test that ends the loop; results
\* is empty when the loop begins and no other message changes it; and the
\* pass that ends the loop writes exactly the results to the store.
C14_ResultsMerged ==
    [][/\ \A w \in Pids :
             (pc = "listening" /\ message[w].subject = "<result>"
                 /\ message'[w].subject = "none") =>
                /\ reply'[w] = <<"meaningless reply", EmptyMap>>
                /\ active' = active - 1
                /\ DOMAIN results' =
                      (DOMAIN results) \cup (DOMAIN message[w].data)
                /\ \A k \in DOMAIN message[w].data :
                      results'[k] = message[w].data[k]
                /\ \A k \in (DOMAIN results) \ (DOMAIN message[w].data) :
                      results'[k] = results[k]
       /\ (pc # "listening" /\ pc' = "listening") => results' = EmptyMap
       /\ \A w \in Pids :
             (pc = "listening"
                 /\ message[w].subject \in {"<purpose>", "<request>", "<info>"}
                 /\ message'[w].subject = "none") => results' = results
       /\ (pc = "listening" /\ pc' = "returned") =>
             /\ DOMAIN loose' = (DOMAIN loose) \cup (DOMAIN results')
             /\ \A k \in DOMAIN results' : loose'[k] = Dumps(results'[k])
             /\ \A k \in (DOMAIN loose) \ (DOMAIN results') :
                   loose'[k] = loose[k]
             /\ tar' = tar
             /\ tarExists' = tarExists
      ]_vars

\* The loop has ended after two results with values, both in the store.
C14_Witness ==
    /\ pc = "returned"
    /\ how = "distributed"
    /\ Cardinality(reported) >= 2
    /\ Cardinality(DOMAIN results) >= 2
    /\ \A k \in DOMAIN results : loose[k] = Dumps(results[k])

\* C16: result merging does not depend on the order of arrival. When the
\* loop has run to the last worker's '<result>', results is the map of the
\* keys partitioned to their values, whatever the order of the messages.
C16_OrderIndependent ==
    (pc = "returned" /\ how = "distributed" /\ reported = 0..(n_pids - 1)) =>
        results = [k \in Missing |-> Calculate(images[k], k)]

\* Two workers with one key each have both reported.
C16_Witness ==
    /\ pc = "returned"
    /\ how = "distributed"
    /\ reported = {0, 1}
    /\ Range(keys[1]) # {}
    /\ Range(keys[2]) # {}
    /\ DOMAIN results = Range(keys[1]) \cup Range(keys[2])

(***************************************************************************)
(* Claims about messages in any order, checked under SpecAnyOrder.         *)
(***************************************************************************)
\* C15: a pass of the loop that receives an '<info>' or a '<request>'
\* acknowledges it and stays in the loop for the next message, also when
\* no '<purpose>' has been received yet (active = 0).
C15_InfoKeepsListening ==
    [][\A w \in Pids :
          (pc = "listening" /\ message[w].subject \in {"<info>", "<request>"}
              /\ message'[w].subject = "none") =>
             (reply'[w][1] # "none" /\ pc' = "listening")
      ]_vars

(***************************************************************************)
(* Claims about hash_images and the serial path, checked under SpecHash.   *)
(***************************************************************************)
\* The hashes of the images of a list.
HashesOf(list) == {GetHash(list[i]) : i \in DOMAIN list}

\* C17: after hash_images and a serial calculate_items the store holds the
\* records it held before and one record for every distinct hash among the
\* images passed in, and no other; from an empty store and images a, b, c
\* with hashes h1, h2, h1 these are the two records h1 and h2.
C17_OneRecordPerHash ==
    pc = "returned" =>
        /\ StoredKeys(Now) = StoredKeys(entry) \cup HashesOf(items)
        /\ DOMAIN images = HashesOf(items)
        /\ \A h \in HashesOf(items) \ StoredKeys(entry) :
              /\ h \in DOMAIN loose
              /\ calculated[h] = 1
        /\ StoredKeys(entry) = {} =>
              Cardinality(DOMAIN loose) = Cardinality(HashesOf(items))

\* Three images, the first and the third with the same hash, on an empty
\* store: two records.
C17_Witness ==
    /\ pc = "returned"
    /\ how = "serial"
    /\ StoredKeys(entry) = {}
    /\ Len(items) = 3
    /\ items[1] # items[3]
    /\ GetHash(items[1]) = GetHash(items[3])
    /\ GetHash(items[2]) # GetHash(items[1])
    /\ Cardinality(StoredKeys(Now)) = 2

\* How many images of a list have hash h.
Occurrences(list, h) ==
    Cardinality({i \in DOMAIN list : GetHash(list[i]) = h})

\* The hashes a list produces again after their first insertion.
Repeated(list) == {h \in HashesOf(list) : Occurrences(list, h) >= 2}

\* The lists of the calls of hash_images made so far, the dictionary
\* returned by each being held by the caller.
Calls == IF pc = "hash" THEN << >> ELSE Append(passes, items)

\* The registry the dictionary returned by call k shows: metadata is an
\* attribute of the class MetaDict, one dictionary for every instance.
RegistryOf(k) == duplicates

\* C29: the duplicates registry of the dictionary a hash_images call
\* returned maps each hash to the number of times it was produced again
\* after its first insertion in that call (m - 1 for a hash occurring
\* m >= 2 times, no entry for a hash occurring once), and it reflects that
\* call only, whatever calls are made later.
C29_RegistryCountsRepeats ==
    \A k \in DOMAIN Calls :
        /\ DOMAIN RegistryOf(k) = Repeated(Calls[k])
        /\ \A h \in Repeated(Calls[k]) :
              RegistryOf(k)[h] = Occurrences(Calls[k], h) - 1

\* The last image of a list with hash h.
LastWith(list, h) ==
    list[CHOOSE i \in DOMAIN list :
            /\ GetHash(list[i]) = h
            /\ \A j \in DOMAIN list : j > i => GetHash(list[j]) # h]

\* C30: hash_images never suppresses a key and keeps the last value: the
\* keys of the returned dictionary are the distinct hashes of the list,
\* each key maps to the last image of the list with that hash, and a
\* duplicate warning is logged once for every occurrence of a hash after
\* its first.
C30_LastImageKept ==
    pc # "hash" =>
        /\ DOMAIN images = HashesOf(items)
        /\ \A h \in HashesOf(items) : images[h] = LastWith(items, h)
        /\ warnings = Len(items) - Cardinality(HashesOf(items))

\* Three images, two different images with the same hash and between them
\* one with another hash: two keys, the later image kept, one warning.
C30_Witness ==
    /\ pc = "idle"
    /\ passes = << >>
    /\ Len(items) = 3
    /\ items[1] # items[3]
    /\ GetHash(items[1]) = GetHash(items[3])
    /\ GetHash(items[2]) # GetHash(items[1])
    /\ Cardinality(DOMAIN images) = 2
    /\ images[GetHash(items[1])] = items[3]
    /\ warnings = 1

(***************************************************************************)
(* Claims about the launch of the workers, checked under SpecLaunch.       *)
(***************************************************************************)
\* The host, by its place in parallel['cores'], that process id w runs on.
HostOf(w) ==
    CHOOSE h \in DOMAIN parallel.cores :
        /\ SumTo(parallel.cores, h) > w
        /\ SumTo(parallel.cores, h - 1) <= w

\* Worker w has written both markers and the supervisor has read them.
HandshakeDone(w) ==
    started > w /\ wstate[w] \notin {"off", "spawned", "connected"}

\* C18: the launch is serialized. A worker is spawned only when every
\* worker before it, and so every worker of the hosts before its host, has
\* written '<amp-connect>' and then '<stderr>' and the supervisor has read
\* both; and the server receives its first message only after the
\* handshake of every worker.
C18_LaunchSerialized ==
    how = "distributed" =>
        /\ \A w \in 0..(n_pids - 1) :
              wstate[w] # "off" =>
                 \A v \in 0..(n_pids - 1) :
                    (v < w \/ HostOf(v) < HostOf(w)) => HandshakeDone(v)
        /\ \A w \in 0..(n_pids - 1) : started > w => HandshakeDone(w)
        /\ pc = "<stderr>" => wstate[started] \notin {"off", "spawned"}
        /\ (pc \in {"listening", "returned"} \/ active > 0
               \/ \E w \in Pids : reply[w][1] # "none") =>
              \A w \in 0..(n_pids - 1) : HandshakeDone(w)

\* Two hosts with one worker each: both handshakes are over and the first
\* '<purpose>' has been received.
C18_Witness ==
    /\ pc = "listening"
    /\ Len(parallel.cores) = 2
    /\ n_pids = 2
    /\ HandshakeDone(0)
    /\ HandshakeDone(1)
    /\ active = 1

\* The launch has failed: nothing was calculated or written by the master,
\* the store is as at entry, and the loop has not begun.
FailedLaunch ==
    /\ Now = entry
    /\ writes = 0
    /\ \A k \in Keys : calculated[k] = 0
    /\ keys = << >>
    /\ results = EmptyMap
    /\ active = 0
    /\ \A w \in Pids : reply[w][1] = "none"
    /\ started < n_pids
    /\ \A w \in Pids : w > started => wstate[w] = "off"

\* C19: when a worker's marker does not come, the launch fails and the
\* failure is final: no worker is spawned afterwards, the master does not
\* calculate in its place, the loop is not entered, and the records of the
\* store are those at entry.
C19_LaunchFailurePropagates ==
    [][/\ pc' = "failed" => FailedLaunch'
       /\ pc = "failed" => (pc' = "failed" /\ started' = started)
      ]_vars

\* The second worker's marker did not come, after the first worker's
\* handshake; keys were to be calculated.
C19_Witness ==
    /\ pc = "failed"
    /\ started = 1
    /\ HandshakeDone(0)
    /\ wstate[1] \in {"spawned", "connected"}
    /\ Missing # {}
    /\ Now = entry

(***************************************************************************)
(* A further claim about FileDatabase, checked under SpecStore.            *)
(***************************************************************************)
\* C20: __getitem__ of a key that is in the memory dictionary, the loose
\* directory and the archive nowhere fails with KeyError, with or without
\* an archive file, returns no value, and leaves the memory dictionary,
\* the loose directory and the archive as they were.
C20_MissingKeyFails ==
    [][last'.op = "getitem" =>
          LET k == last'.key
          IN (/\ k \notin DOMAIN memdict
              /\ k \notin DOMAIN loose
              /\ ~(tarExists /\ k \in DOMAIN tar)) =>
                 /\ last'.ret = KeyError(k)
                 /\ memdict' = memdict
                 /\ loose' = loose
                 /\ tarExists' = tarExists
                 /\ tar' = tar
      ]_vars

\* An archive file exists and holds another key; get of a key found
\* nowhere has failed.
C20_Witness ==
    /\ last.op = "getitem"
    /\ last.ret = KeyError(last.key)
    /\ tarExists
    /\ DOMAIN tar # {}
    /\ last.key \notin DOMAIN tar
    /\ last.key \notin DOMAIN loose
    /\ last.key \notin DOMAIN memdict

\* C21: __setitem__(k, v) sets the memory entry of k to v; it writes the
\* loose file only when there is none for k or its content is not the
\* serialization of v; a second put(k, v) changes nothing; and no put
\* changes the archive or the memory entry or loose file of another key.
C21_PutWriteAvoidance ==
    [][last'.op = "setitem" =>
          LET k == last'.key
              v == last'.val
          IN /\ k \in DOMAIN memdict' /\ memdict'[k] = v
             /\ last'.ret =
                   <<"written",
                     IF k \notin DOMAIN loose \/ loose[k] # Dumps(v)
                     THEN 1 ELSE 0>>
             /\ k \in DOMAIN loose' /\ loose'[k] = Dumps(v)
             /\ DOMAIN loose' = (DOMAIN loose) \cup {k}
             /\ DOMAIN memdict' = (DOMAIN memdict) \cup {k}
             /\ \A x \in (DOMAIN loose) \ {k} : loose'[x] = loose[x]
             /\ \A x \in (DOMAIN memdict) \ {k} : memdict'[x] = memdict[x]
             /\ tar' = tar
             /\ tarExists' = tarExists
             /\ (last.op = "setitem" /\ last.key = k /\ last.val = v) =>
                   /\ last'.ret = <<"written", 0>>
                   /\ loose' = loose
                   /\ memdict' = memdict
      ]_vars

\* put(k, v) twice over a loose file that held another value: the first
\* put wrote, the second did not.
C21_Witness ==
    /\ last.op = "setitem"
    /\ last.prev = "setitem"
    /\ last.ret = <<"written", 0>>
    /\ tarExists
    /\ last.key \in DOMAIN tar
    /\ loose[last.key] = Dumps(last.val)
    /\ tar[last.key] # Dumps(last.val)

\* C22: FileDatabase.open creates the root and loose directories when the
\* root is absent; given the path with or without the '.ampdb' extension
\* it opens the same store, and it changes neither the loose entries nor
\* the archive, so keys() and every value read are as before.
C22_OpenIdempotent ==
    [][last'.op = "open" =>
          /\ path' = StorePath
          /\ rootExists'
          /\ loose' = loose
          /\ tarExists' = tarExists
          /\ tar' = tar
          /\ DbKeys(loose', tarExists', tar') = DbKeys(loose, tarExists, tar)
          /\ \A k \in Keys :
                GetItem(EmptyMap, loose', tarExists', tar', k)
                   = GetItem(EmptyMap, loose, tarExists, tar, k)
      ]_vars

\* A store with loose entries and an archive has been opened again, by
\* its path without the extension.
C22_Witness ==
    /\ last.op = "open"
    /\ last.ret = <<"opened", 0>>
    /\ path = StorePath
    /\ DOMAIN loose # {}
    /\ tarExists
    /\ DOMAIN tar # {}

(***************************************************************************)
(* Claims about processes writing at once, checked under SpecWriters.      *)
(***************************************************************************)
AllDone == \A p \in WriterProcs : writers[p].pc = "done"

\* The process whose file write ended last, if any wrote.
Wrote == {i \in DOMAIN finished : finished[i][2] = 1}

LastWriter ==
    finished[CHOOSE i \in Wrote : \A j \in Wrote : j <= i][1]

\* C23: two processes that put values for different keys through
\* instances of their own end, in every interleaving of their steps, with
\* both keys stored with the values written.
C23_DifferentKeysSafe ==
    (AllDone /\ writers["p1"].key # writers["p2"].key) =>
        \A p \in WriterProcs :
            /\ writers[p].key \in DOMAIN loose
            /\ loose[writers[p].key] = PickleChunks(writers[p].val)
            /\ PickleLoad(loose[writers[p].key]) = Returned(writers[p].val)
            /\ writers[p].mem[writers[p].key] = writers[p].val

\* Both processes have written, to different keys.
C23_Witness ==
    /\ AllDone
    /\ writers["p1"].key # writers["p2"].key
    /\ Len(finished) = 2
    /\ finished[1][2] = 1
    /\ finished[2][2] = 1
    /\ \A p \in WriterProcs :
          PickleLoad(loose[writers[p].key]) = Returned(writers[p].val)

\* C24: two processes that put v1 and v2 for the same key end with a
\* loose file from which a new instance reads v1 or v2, the value of the
\* process whose write ended last, never another value and never nothing.
C24_LastWriteWins ==
    (AllDone /\ writers["p1"].key = writers["p2"].key) =>
        LET k == writers["p1"].key
        IN /\ k \in DOMAIN loose
           /\ PickleLoad(loose[k]) \in
                 {Returned(writers[p].val) : p \in WriterProcs}
           /\ Wrote # {} =>
                 PickleLoad(loose[k]) = Returned(writers[LastWriter].val)

(***************************************************************************)
(* Claims about get_hash, checked under SpecAtoms.                         *)
(***************************************************************************)
SameFields(a, b) ==
    /\ a.pbc = b.pbc
    /\ a.cell = b.cell
    /\ a.numbers = b.numbers
    /\ a.positions = b.positions

\* C25: get_hash is a function of pbc, cell, the atomic numbers in order
\* and the positions in order: two images equal in these four fields get
\* the same key, and hash_image gives every image the key get_hash gives.
C25_HashDeterminism ==
    hashes # << >> =>
        /\ SameFields(atoms[1], atoms[2]) => hashes.get[1] = hashes.get[2]
        /\ hashes.image[1] = hashes.get[1]
        /\ hashes.image[2] = hashes.get[2]

\* Two images that agree in the four fields and differ elsewhere.
C25_Witness ==
    /\ hashes # << >>
    /\ SameFields(atoms[1], atoms[2])
    /\ atoms[1] # atoms[2]
    /\ Len(atoms[1].numbers) >= 2
    /\ hashes.get[1] = hashes.get[2]
    /\ hashes.image[1] = hashes.get[1]

\* Image b is image a with its atoms in another order: numbers and
\* positions permuted the same way.
Permuted(a, b) ==
    /\ a.pbc = b.pbc
    /\ a.cell = b.cell
    /\ Len(a.numbers) = Len(b.numbers)
    /\ \E f \in [DOMAIN a.numbers -> DOMAIN a.numbers] :
          /\ \A i, j \in DOMAIN f : i # j => f[i] # f[j]
          /\ \A i \in DOMAIN f :
                /\ b.numbers[i] = a.numbers[f[i]]
                /\ b.positions[i] = a.positions[f[i]]

\* C26: two images that differ only by the order of their atoms get the
\* same key.
C26_OrderInsensitive ==
    (hashes # << >> /\ Permuted(atoms[1], atoms[2])) =>
        hashes.get[1] = hashes.get[2]

(***************************************************************************)
(* Claims about assign_cores, checked under SpecCores.                     *)
(***************************************************************************)
Called == assigned # << >>

NoScheduler == cores[1] = "None" /\ environ.vars \cap SchedulerVars = {}

Logged(entry_) == \E i \in DOMAIN assigned.log : assigned.log[i] = entry_

\* C27, as claimed: with cores None and no scheduler variable in the
\* environment, assign_cores fails with an error after dumping the
\* environment to the log, and returns no core map.
C27_NoSchedulerFails ==
    (Called /\ NoScheduler) =>
        /\ assigned.status = "raised"
        /\ Logged("Environment dump:")

\* C27, as the code has it: with cores None and no scheduler variable in
\* the environment, assign_cores logs that a single machine is assumed
\* and returns the map of localhost to the local CPU count; it raises
\* nothing and dumps no environment.
C27_NoSchedulerSingleMachine ==
    (Called /\ NoScheduler) =>
        /\ assigned.status = "returned"
        /\ assigned.value = <<"dict", <<environ.cpus>> >>
        /\ assigned.q = "<single machine>"
        /\ Logged("single machine assumed")
        /\ ~Logged("Environment dump:")
        /\ ~Logged("message")

\* No scheduler variable, no cores argument, two local CPUs.
C27_Witness ==
    /\ Called
    /\ NoScheduler
    /\ environ.cpus = 2
    /\ assigned.status = "returned"
    /\ assigned.value = <<"dict", <<2>> >>

\* The scheduler assign_cores settles on: the first, in the order SLURM,
\* PBS, LoadLeveler, SGE, whose variable is in the environment.
Scheduler ==
    IF "SLURM_NODELIST" \in environ.vars THEN "SLURM"
    ELSE IF "PBS_NODEFILE" \in environ.vars THEN "PBS"
    ELSE IF "LOADL_PROCESSOR_LIST" \in environ.vars THEN "LOADL"
    ELSE IF "PE_HOSTFILE" \in environ.vars THEN "SGE"
    ELSE "none"

\* The variables of the scheduler cannot be parsed.
Unparsable ==
    \/ /\ Scheduler = "SLURM"
       /\ \/ environ.nnodes = BadInt
          \/ environ.tasks = BadInt
          \/ (environ.nnodes # 1 /\ environ.nodelist = "brackets")
    \/ /\ Scheduler = "SGE"
       /\ \/ environ.hostfile[1] = "missing"
          \/ \E i \in DOMAIN environ.hostfile[2] :
                environ.hostfile[2][i] = BadInt

\* C28: with cores None the schedulers are tried in the order SLURM, PBS,
\* LoadLeveler, SGE; PBS and LoadLeveler, and SLURM or SGE with variables
\* that cannot be parsed, end in a raised error for that scheduler, the
\* message and then the environment dump being logged first, and never
\* in a returned core map or in the local CPU count.
C28_SchedulerFailsLoudly ==
    (Called /\ cores[1] = "None") =>
        /\ Scheduler # "none" => assigned.q = Scheduler
        /\ (Scheduler \in {"PBS", "LOADL"} \/ Unparsable) =>
              /\ assigned.status = "raised"
              /\ assigned.value[1] = "NotImplementedError"
              /\ Len(assigned.log) >= 2
              /\ assigned.log[1] = "message"
              /\ assigned.log[2] = "Environment dump:"
              /\ ~Logged("configuration")
              /\ ~Logged("single machine assumed")
        /\ (Scheduler \in {"SLURM", "SGE"} /\ Unparsable) =>
              Logged("traceback")

\* SLURM_NODELIST and PE_HOSTFILE are both set, SLURM_NNODES is no
\* integer and the SGE host file is good: the error is SLURM's.
C28_Witness ==
    /\ Called
    /\ cores[1] = "None"
    /\ {"SLURM_NODELIST", "PE_HOSTFILE"} \subseteq environ.vars
    /\ environ.nnodes = BadInt
    /\ environ.hostfile = <<"lines", <<2>> >>
    /\ assigned.status = "raised"
    /\ assigned.q = "SLURM"
    /\ assigned.log = <<"message", "Environment dump:", "traceback">>

(***************************************************************************)
(* Claims about the discipline of the loop, checked under Spec.            *)
(***************************************************************************)
\* The subjects the server has a branch for.
Subjects == {"<purpose>", "<request>", "<result>", "<info>"}

\* The server receives the message of worker w in this step.
Receives(w) ==
    /\ pc = "listening"
    /\ message[w].subject \in Subjects
    /\ message'[w].subject = "none"

\* C31: request/reply discipline. A step of the server that receives a
\* message of one of the four subjects sends one reply, to the sender, in
\* the same pass of the loop; the sender had no unread reply; no other
\* worker's message is received and no other worker is sent a reply in
\* that pass; and a reply is sent only in a pass that receives a message.
C31_OneReplyPerMessage ==
    [][\A w \in Pids :
          /\ Receives(w) =>
                /\ reply[w][1] = "none"
                /\ reply'[w][1] # "none"
                /\ \A u \in Pids \ {w} :
                      /\ message'[u] = message[u]
                      /\ reply'[u] = reply[u]
          /\ (reply[w][1] = "none" /\ reply'[w][1] # "none") => Receives(w)
      ]_vars

\* Worker 0 has been served its images and has not read them yet, while
\* the '<purpose>' of worker 1 waits to be received.
C31_Witness ==
    /\ pc = "listening"
    /\ reply[0][1] = "images"
    /\ message[0].subject = "none"
    /\ message[1].subject = "<purpose>"
    /\ reply[1][1] = "none"

\* The workers whose '<purpose>' the server has received: those past the
\* sending of it whose message no longer waits at the socket.
PurposeReceived ==
    {w \in Pids :
        \/ wstate[w] \in {"ready", "request", "asking", "loaded", "info",
                          "result", "done"}
        \/ (wstate[w] = "purpose" /\ message[w].subject = "none")}

\* C32: in every state of the loop, and after it, active is the number
\* of '<purpose>' messages received minus the number of '<result>'
\* messages received; a pass that receives a '<purpose>' adds one, a
\* '<result>' takes one off, a '<request>' or an '<info>' leaves active
\* and results as they are; and with workers that send one purpose before
\* their one result, active is never negative.
C32_ActiveCounts ==
    /\ [](pc \in {"listening", "returned"} /\ how = "distributed" =>
             /\ active = Cardinality(PurposeReceived) - Cardinality(reported)
             /\ reported \subseteq PurposeReceived
             /\ active >= 0)
    /\ [][\A w \in Pids :
             Receives(w) =>
                /\ message[w].subject = "<purpose>" => active' = active + 1
                /\ message[w].subject = "<result>" => active' = active - 1
                /\ message[w].subject \in {"<request>", "<info>"} =>
                      (active' = active /\ results' = results)
         ]_vars

\* Both purposes and one result have been received, and in between a
\* request and an info: one process is counted as calculating.
C32_Witness ==
    /\ pc = "listening"
    /\ PurposeReceived = {0, 1}
    /\ reported = {0}
    /\ wstate[1] = "info"
    /\ reply[1][1] = "meaningless reply"
    /\ active = 1

\* The processes that were spawned.
Launched == {w \in Pids : wstate[w] # "off"}

\* C33: worker identities are valid partition indices. The ids handed to
\* the hosts are disjoint ranges that together are 0..pid_count-1,
\* pid_count is the sum of the per-host counts, the workers spawned are
\* those with these ids, and the partition has pid_count sublists: one
\* for every worker launched and none without a worker.
C33_IdsArePartitionIndices ==
    (how = "distributed" /\ pc \in {"listening", "returned"}) =>
        LET counts == parallel.cores
            hosts == DOMAIN counts
            total == SumTo(counts, Len(counts))
        IN /\ n_pids = total
           /\ UNION {PidsOfHost(counts, h) : h \in hosts} = 0..(n_pids - 1)
           /\ \A g, h \in hosts :
                 g # h => PidsOfHost(counts, g) \cap PidsOfHost(counts, h) = {}
           /\ \A h \in hosts : Cardinality(PidsOfHost(counts, h)) = counts[h]
           /\ Launched = 0..(n_pids - 1)
           /\ Len(keys) = n_pids
           /\ \A w \in Launched : w + 1 \in DOMAIN keys
           /\ \A i \in DOMAIN keys : i - 1 \in Launched

\* Two processes on one host, with a key each, are listened to.
C33_Witness ==
    /\ pc = "listening"
    /\ parallel.cores = <<2>>
    /\ PidsOfHost(parallel.cores, 1) = {0, 1}
    /\ Launched = {0, 1}
    /\ Len(keys) = 2
    /\ Len(keys[1]) = 1
    /\ Len(keys[2]) = 1

C35_StoreWrittenAfterLoop ==
    (how = "distributed" /\ pc # "returned") =>
        /\ loose = entry.loose
        /\ tar = entry.tar
        /\ tarExists = entry.tarExists
        /\ writes = 0

\* Worker 0 has returned a result with a value and has been acknowledged,
\* worker 1 does not send its own: the loop goes on and the value is not
\* in the store.
C35_Witness ==
    /\ pc = "listening"
    /\ how = "distributed"
    /\ reported = {0}
    /\ wstate[0] = "done"
    /\ wstate[1] = "loaded"
    /\ DOMAIN results # {}
    /\ (DOMAIN results) \cap StoredKeys(Now) = {}
    /\ Now = entry

(***************************************************************************)
(* Claims about termination, checked under SpecLive.                       *)
(***************************************************************************)
\* C36: termination under fairness. When every launched worker sends its
\* '<purpose>', finitely many '<request>' and '<info>' messages and then
\* its '<result>', and every message sent is received, a loop that has
\* begun ends: calculate_items reaches the write of the results and
\* returns.
C36_LoopTerminates == (pc = "listening") ~> (pc = "returned")

\* The loop has ended after the result of every worker was received, each
\* worker having been served a key.
C36_Witness ==
    /\ pc = "returned"
    /\ how = "distributed"
    /\ n_pids = 2
    /\ reported = {0, 1}
    /\ \A w \in {0, 1} : wstate[w] \in {"result", "done"} /\ DOMAIN wdata[w] # {}
    /\ active = 0

(***************************************************************************)
(* Claims about the memory dictionary, checked under SpecCache.            *)
(***************************************************************************)
\* The value on disk that counts for key k: loose if present, else archived.
Authoritative(k) ==
    IF k \in DOMAIN loose THEN Loads(loose[k]) ELSE Loads(tar[k])

\* C39: memory coherence. For an instance that is the only writer of its
\* path, after any calls of put, update, get, keys, values and archive,
\* every entry (k, v) of its memory dictionary has k among keys() and v
\* equal to the value on disk that counts for k; and a get of a key in
\* the memory dictionary returns the memory entry, whatever the disk
\* holds.
C39_MemoryCoherent ==
    /\ (isOpen /\ other = << >>) =>
          \A k \in DOMAIN memdict :
             /\ k \in DbKeys(loose, tarExists, tar)
             /\ memdict[k] = Authoritative(k)
    /\ (last.op = "getitem" /\ last.key \in DOMAIN memdict) =>
          last.ret = Returned(memdict[last.key])

\* The instance put a key, compacted, and read the key: the memory entry
\* is the archived value, the only one on disk.
C39_Witness ==
    /\ isOpen
    /\ other = << >>
    /\ last.op = "getitem"
    /\ last.prev = "archive"
    /\ last.key \in DOMAIN memdict
    /\ last.key \notin DOMAIN loose
    /\ tarExists
    /\ memdict[last.key] = Loads(tar[last.key])
    /\ last.ret = Returned(memdict[last.key])

\* C40: values() moves the items on disk into memory: after values()
\* every key of keys() is in the memory dictionary, and a key that was
\* read with get is in the memory dictionary.
C40_ReadsKeptInMemory ==
    (isOpen /\ other = << >>) =>
        /\ last.op = "values" =>
              DbKeys(loose, tarExists, tar) \subseteq DOMAIN memdict
        /\ (last.op = "getitem" /\ last.ret[1] = "value") =>
              last.key \in DOMAIN memdict

(***************************************************************************)
(* Claims about compaction step by step, checked under SpecCompact.        *)
(***************************************************************************)
\* The content that counted for key k when archive() was called.
Before(k) ==
    IF k \in DOMAIN last.pre.loose THEN last.pre.loose[k] ELSE last.pre.tar[k]

\* That content is in a loose file, or in an archive file that is closed.
Kept(k) ==
    \/ (k \in DOMAIN loose /\ loose[k] = Before(k))
    \/ (tarExists /\ arch.whole /\ k \in DOMAIN tar /\ tar[k] = Before(k))

\* C37: compaction interrupted at any step loses no value. In every
\* state of an archive() call, with no other process writing, every key
\* that keys() held before the call has its most recent value in a loose
\* file or in a completely written archive.
C37_CrashKeepsValues ==
    (arch.pc # "idle" /\ other = << >>) =>
        \A k \in StoredKeys(last.pre) : Kept(k)

\* The archive is being rewritten: it is open and holds one member of two,
\* and a key that was in the archive only is a loose file now.
C37_Witness ==
    /\ arch.pc = "add"
    /\ other = << >>
    /\ ~arch.whole
    /\ Cardinality(arch.loosefiles) = 2
    /\ Cardinality(arch.rest) = 1
    /\ \E k \in (DOMAIN last.pre.tar) \ (DOMAIN last.pre.loose) :
          /\ k \in arch.rest
          /\ k \notin DOMAIN tar
          /\ loose[k] = last.pre.tar[k]

\* C38: compaction concurrent with a writer loses no update. When another
\* process has completed put(k, v) while archive() was in progress, for a
\* key new to the store or present as a loose file, a new instance reads v
\* for k after archive() has finished.
C38_ConcurrentPutKept ==
    (/\ arch.pc = "done"
     /\ other # << >>
     /\ (other[1] \notin StoredKeys(last.pre)
            \/ other[1] \in DOMAIN last.pre.loose)) =>
        FreshGet(Now, other[1]) = Returned(other[2])

=============================================================================
